---------------------------- MODULE Spec2Model ----------------------------
(***************************************************************************)
(* Model of the SEAL calibration library (klich3/seal-calibration):        *)
(* the device-file codec (io/loader.py, io/writer.py,                      *)
(* models/seal_calib.py), the stereo calibrator (core/stereo.py) and the   *)
(* export pipelines of the examples.                                       *)
(*                                                                         *)
(* Text is modelled character by character: a string is a sequence of      *)
(* one-character strings, a file is a sequence of lines (without their     *)
(* terminators).  A Python float is modelled as a signed fixed-point       *)
(* number with seven fractional digits, [neg, ip, fp] standing for         *)
(* (-1)^neg * (ip + fp / 10^7), so that the "{:.6f}" formatting rounds.    *)
(***************************************************************************)
EXTENDS Integers, Sequences, FiniteSets, TLC

(***************************************************************************)
(* Bounds of the model                                                     *)
(***************************************************************************)
\* number of codec / pipeline operations explored after the initial state
MaxOps == 2
\* largest number of lookup-table rows in an initial device file
MaxLutRows == 3

(***************************************************************************)
(* Python values                                                           *)
(***************************************************************************)
\* a Python list or tuple built by a comprehension: the sequence itself
List(f) == f \o <<>>

\* Optional[str]: None, or Some(s)
None == [some |-> FALSE, v |-> <<>>]

Some(s) == [some |-> TRUE, v |-> s]

\* 10^7: the number of fixed-point units in 1.0
FpUnit == 10 * 1000 * 1000

Flt(neg, ip, fp) == [neg |-> neg, ip |-> ip, fp |-> fp]

Zero == Flt(FALSE, 0, 0)

One == Flt(FALSE, 1, 0)

(***************************************************************************)
(* str primitives                                                          *)
(***************************************************************************)
DigitChars == <<"0", "1", "2", "3", "4", "5", "6", "7", "8", "9">>

DigitSet == {DigitChars[d] : d \in 1..10}

IsDigit(c) == c \in DigitSet

DigitVal(c) ==
    CASE c = "0" -> 0 [] c = "1" -> 1 [] c = "2" -> 2 [] c = "3" -> 3
      [] c = "4" -> 4 [] c = "5" -> 5 [] c = "6" -> 6 [] c = "7" -> 7
      [] c = "8" -> 8 [] c = "9" -> 9

\* str.isspace() for the characters the model uses
IsSpace(c) == c \in {" ", "\t"}

RECURSIVE NatToStr(_)
NatToStr(n) ==
    IF n < 10 THEN <<DigitChars[n + 1]>>
    ELSE NatToStr(n \div 10) \o <<DigitChars[(n % 10) + 1]>>

RECURSIVE StrToNat(_)
StrToNat(s) ==
    IF s = <<>> THEN 0
    ELSE 10 * StrToNat(SubSeq(s, 1, Len(s) - 1)) + DigitVal(s[Len(s)])

AllDigits(s) == \A i \in 1..Len(s) : IsDigit(s[i])

\* zero-padding on the left to width w
RECURSIVE PadLeft(_, _)
PadLeft(s, w) == IF Len(s) >= w THEN s ELSE PadLeft(<<"0">> \o s, w)

\* zero-padding on the right to width w
RECURSIVE PadRight(_, _)
PadRight(s, w) == IF Len(s) >= w THEN s ELSE PadRight(s \o <<"0">>, w)

\* str.startswith
StartsWith(s, p) == Len(s) >= Len(p) /\ SubSeq(s, 1, Len(p)) = p

\* str.lstrip(), str.rstrip(), str.strip()
RECURSIVE LStrip(_)
LStrip(s) == IF s # <<>> /\ IsSpace(s[1]) THEN LStrip(Tail(s)) ELSE s

RECURSIVE RStrip(_)
RStrip(s) ==
    IF s # <<>> /\ IsSpace(s[Len(s)]) THEN RStrip(SubSeq(s, 1, Len(s) - 1))
    ELSE s

Strip(s) == RStrip(LStrip(s))

\* str.split(): the maximal runs of non-whitespace characters, from index i on
RECURSIVE SplitFrom(_, _)
SplitFrom(s, i) ==
    IF \A k \in i..Len(s) : IsSpace(s[k]) THEN <<>>
    ELSE LET a == CHOOSE j \in i..Len(s) :
                      ~IsSpace(s[j]) /\ \A k \in i..(j - 1) : IsSpace(s[k])
             b == CHOOSE j \in a..Len(s) :
                      /\ j = Len(s) \/ IsSpace(s[j + 1])
                      /\ \A k \in a..j : ~IsSpace(s[k])
         IN <<SubSeq(s, a, b)>> \o SplitFrom(s, b + 1)

Split(s) == SplitFrom(s, 1)

\* sep.join(parts)
RECURSIVE Join(_, _)
Join(sep, parts) ==
    IF parts = <<>> THEN <<>>
    ELSE IF Len(parts) = 1 THEN parts[1]
    ELSE parts[1] \o sep \o Join(sep, Tail(parts))

\* the longest prefix of s with no character in stops
TakeUntil(s, stops) ==
    LET at == {i \in 1..Len(s) : s[i] \in stops}
    IN IF at = {} THEN s
       ELSE SubSeq(s, 1, (CHOOSE i \in at : \A j \in at : i <= j) - 1)

\* re.search(key + "([^stops]+)", line): group 1 of the leftmost match
RegexSearch(line, key, stops) ==
    LET n == Len(key)
        Hit(i) == /\ i + n <= Len(line)
                  /\ SubSeq(line, i, i + n - 1) = key
                  /\ line[i + n] \notin stops
        hits == {i \in 1..Len(line) : Hit(i)}
    IN IF hits = {} THEN None
       ELSE LET i == CHOOSE j \in hits : \A k \in hits : j <= k
            IN Some(TakeUntil(SubSeq(line, i + n, Len(line)), stops))

(***************************************************************************)
(* Number formatting and parsing                                           *)
(***************************************************************************)
\* f"{n}" for an int
FormatInt(n) == IF n < 0 THEN <<"-">> \o NatToStr(-n) ELSE NatToStr(n)

\* "{:.6f}".format(x): rounds the seventh fractional digit away (ties to even)
FormatFloat6(x) ==
    LET q == x.fp \div 10
        r == x.fp % 10
        up == r > 5 \/ (r = 5 /\ q % 2 = 1)
        m == IF up THEN q + 1 ELSE q
        carry == m = FpUnit \div 10
        ip == IF carry THEN x.ip + 1 ELSE x.ip
        micro == IF carry THEN 0 ELSE m
    IN (IF x.neg THEN <<"-">> ELSE <<>>)
       \o NatToStr(ip) \o <<".">> \o PadLeft(NatToStr(micro), 6)

\* the digits of s without its trailing zeros, one digit at least
RECURSIVE TrimZeros(_)
TrimZeros(s) ==
    IF Len(s) > 1 /\ s[Len(s)] = "0" THEN TrimZeros(SubSeq(s, 1, Len(s) - 1))
    ELSE s

\* str(x) for a float: shortest repr, always with a fractional part
StrFloat(x) ==
    (IF x.neg THEN <<"-">> ELSE <<>>)
    \o NatToStr(x.ip) \o <<".">> \o TrimZeros(PadLeft(NatToStr(x.fp), 7))

\* int(tok): [ok, v]; ok is FALSE where Python raises ValueError
ParseInt(tok) ==
    LET signed == tok # <<>> /\ tok[1] \in {"-", "+"}
        body == IF signed THEN Tail(tok) ELSE tok
    IN IF body # <<>> /\ AllDigits(body)
       THEN [ok |-> TRUE,
             v |-> IF signed /\ tok[1] = "-" THEN 0 - StrToNat(body)
                   ELSE StrToNat(body)]
       ELSE [ok |-> FALSE, v |-> 0]

\* float(tok) for decimal literals: [ok, v]
ParseFloat(tok) ==
    LET signed == tok # <<>> /\ tok[1] \in {"-", "+"}
        body == IF signed THEN Tail(tok) ELSE tok
        ipart == TakeUntil(body, {"."})
        rest == SubSeq(body, Len(ipart) + 1, Len(body))
        fpart == IF rest = <<>> THEN <<>> ELSE Tail(rest)
        ok == /\ AllDigits(ipart) /\ AllDigits(fpart)
              /\ Len(ipart) + Len(fpart) > 0
    IN IF ok
       THEN [ok |-> TRUE,
             v |-> Flt(signed /\ tok[1] = "-", StrToNat(ipart),
                       StrToNat(SubSeq(PadRight(fpart, 7), 1, 7)))]
       ELSE [ok |-> FALSE, v |-> Zero]

\* tuple(parsed) when every element parsed, the ValueError otherwise: [ok, v]
Collect(parsed) ==
    IF \A i \in 1..Len(parsed) : parsed[i].ok
    THEN [ok |-> TRUE, v |-> List([i \in 1..Len(parsed) |-> parsed[i].v])]
    ELSE [ok |-> FALSE, v |-> <<>>]

\* tuple(map(int, line.split())): [ok, v]
MapParseInt(toks) == Collect(List([i \in 1..Len(toks) |-> ParseInt(toks[i])]))

\* tuple(map(float, line.split())): [ok, v]
MapParseFloat(toks) == Collect(List([i \in 1..Len(toks) |-> ParseFloat(toks[i])]))

(***************************************************************************)
(* models/camera_params.py, models/stereo_params.py                        *)
(***************************************************************************)
\* the 3x3 intrinsic matrix built from fx, fy, cx, cy
KMatrix(vfx, vfy, vcx, vcy) ==
    <<<<vfx, Zero, vcx>>, <<Zero, vfy, vcy>>, <<Zero, Zero, One>>>>

CameraParams(K, dist, img_size, rms_error) ==
    [K |-> K, dist |-> dist, img_size |-> img_size, rms_error |-> rms_error]

fx(c) == c.K[1][1]

fy(c) == c.K[2][2]

cx(c) == c.K[1][3]

cy(c) == c.K[2][3]

\* a coefficient the vector does not carry reads as 1.0
DistAt_One(c, i) == IF Len(c.dist) > i THEN c.dist[i + 1] ELSE One

\* dist_flat[i] if len(dist_flat) > i else 0.0   (i counted from 0); c.dist
\* holds the array in the order flatten() gives
DistAt(c, i) == IF Len(c.dist) > i THEN c.dist[i + 1] ELSE Zero

k1(c) == DistAt(c, 0)

k2(c) == DistAt(c, 1)

p1(c) == DistAt(c, 2)

p2(c) == DistAt(c, 3)

k3(c) == DistAt(c, 4)

k4(c) == DistAt(c, 5)

k5(c) == DistAt(c, 6)

k6(c) == DistAt(c, 7)

\* fx fy cx cy k1 k2 p1 p2 k3 k4 k5 k6 of a camera, in file order
CalibFields(c) ==
    <<fx(c), fy(c), cx(c), cy(c), k1(c), k2(c), p1(c), p2(c),
      k3(c), k4(c), k5(c), k6(c)>>

StereoParams(K_left, dist_left, K_right, dist_right, R, T, E, F, rms_error, img_size) ==
    [K_left |-> K_left, dist_left |-> dist_left,
     K_right |-> K_right, dist_right |-> dist_right,
     R |-> R, T |-> T, E |-> E, F |-> F,
     rms_error |-> rms_error, img_size |-> img_size]

Eye3 == <<<<One, Zero, Zero>>, <<Zero, One, Zero>>, <<Zero, Zero, One>>>>

Zeros33 == <<<<Zero, Zero, Zero>>, <<Zero, Zero, Zero>>, <<Zero, Zero, Zero>>>>

Zeros31 == <<<<Zero>>, <<Zero>>, <<Zero>>>>

(***************************************************************************)
(* models/seal_calib.py                                                    *)
(***************************************************************************)
SEALCalibration(resolution, scale_factors, offset_center, offset_tilt, camera_left, camera_right, stereo, lut_table, metadata) ==
    [resolution |-> resolution, scale_factors |-> scale_factors,
     offset_center |-> offset_center, offset_tilt |-> offset_tilt,
     camera_left |-> camera_left, camera_right |-> camera_right,
     stereo |-> stereo, lut_table |-> lut_table, metadata |-> metadata]

\* lut_table is None
NoLut == [some |-> FALSE, rows |-> <<>>]

Lut(rows) == [some |-> TRUE, rows |-> rows]

\* dict.get(key): None when the key is absent
MetaGet(metadata, key) ==
    IF key \in DOMAIN metadata THEN Some(metadata[key]) ELSE None

\* dict.get(key, default)
MetaGetDefault(metadata, key, default) ==
    IF key \in DOMAIN metadata THEN metadata[key] ELSE default

RecalibrationLabel == <<"S","y","c","h","e","v","-","c","a","l","i","b","r","a","t","i","o","n">>

DefaultDevID == <<"U","N","K","N","O","W","N">>

DefaultSoftVersion == <<"3",".","0",".","0",".","1","1","1","6">>

DefaultDate == <<"2","0","2","4","-","0","1","-","0","1","_","0","0","-","0","0","-","0","0">>

DevIDMarker == <<"*","*","*","D","e","v","I","D",":">>

\* the placeholder projector record of line 7
ProjectorPlaceholder ==
    <<"2","8","0","0",".","0","0","0","0","0","0"," ","2","4","7","7",".","0","0","0","0","0","0"," ","5","4","2",".","0","0","0","0","0","0"," ","3","5","3",".","0","0","0","0","0","0"," ","-","0",".","2","2","0","0","0","0"," ","-","0",".","2","9","5","0","0","0"," ","-","0",".","0","0","0","0","1","1"," ","-","0",".","0","0","0","8","7","5"," ","4",".","0","2","9","6","6","2"," ","-","0",".","0","0","7","2","0","6"," ","-","0",".","1","3","3","6","1","9"," ","-","0",".","0","0","3","5","1","1"," ","2","8",".","3","7","7","7","2","4"," ","0",".","0","1","1","2","7","2"," ","1",".","6","6","2","6","0","1">>

\* "***DevID:{}***CalibrateDate:{}***Type:{}***SoftVersion:{}"
FooterLine(dev_id, date, calib_type, version) ==
    DevIDMarker \o dev_id \o <<"*","*","*","C","a","l","i","b","r","a","t","e","D","a","t","e",":">> \o date
    \o <<"*","*","*","T","y","p","e",":">> \o calib_type \o <<"*","*","*","S","o","f","t","V","e","r","s","i","o","n",":">> \o version

\* one camera line of to_seal_format: 12 fields and three zero fields
SealCameraLine(c) ==
    Join(<<" ">>, List([i \in 1..12 |-> FormatFloat6(CalibFields(c)[i])]))
    \o <<" ","0",".","0","0","0","0","0","0"," ","0",".","0","0","0","0","0","0"," ","0",".","0","0","0","0","0","0">>

\* to_seal_format indexes resolution, scale factors and offsets at 0 and 1
CanFormat(calib) ==
    /\ Len(calib.resolution) >= 2
    /\ Len(calib.scale_factors) >= 2
    /\ Len(calib.offset_center) >= 2
    /\ Len(calib.offset_tilt) >= 2

\* SEALCalibration.to_seal_format, as the sequence of lines it joins
ToSealFormat(calib) ==
    LET head ==
            << FormatInt(calib.resolution[1]) \o <<" ">> \o FormatInt(calib.resolution[2]),
               FormatFloat6(calib.scale_factors[1]) \o <<" ">>
                   \o FormatFloat6(calib.scale_factors[2]),
               FormatInt(calib.offset_center[1]) \o <<" ">>
                   \o FormatInt(calib.offset_center[2]),
               FormatInt(calib.offset_tilt[1]) \o <<" ">>
                   \o FormatInt(calib.offset_tilt[2]),
               SealCameraLine(calib.camera_left),
               SealCameraLine(calib.camera_right),
               ProjectorPlaceholder >>
        lut == IF calib.lut_table.some
               THEN [r \in 1..Len(calib.lut_table.rows) |->
                        Join(<<" ">>, List([j \in 1..Len(calib.lut_table.rows[r]) |->
                                               StrFloat(calib.lut_table.rows[r][j])]))]
               ELSE <<>>
        footer == IF DOMAIN calib.metadata # {}
                  THEN << FooterLine(
                            MetaGetDefault(calib.metadata, "dev_id", DefaultDevID),
                            MetaGetDefault(calib.metadata, "date", DefaultDate),
                            RecalibrationLabel,
                            MetaGetDefault(calib.metadata, "version", DefaultSoftVersion)) >>
                  ELSE <<>>
    IN head \o lut \o footer

(***************************************************************************)
(* io/loader.py                                                            *)
(***************************************************************************)
\* the least number of lines of a device file or template
MinLines == 10

\* the least number of fields of a camera line
MinCameraFields == 9

\* without a marker line the footer is taken to be the line before the last
FindMetadataIdx_Before(lines) ==
    LET hits == {i \in 7..Len(lines) : StartsWith(lines[i], DevIDMarker)}
    IN IF hits = {} THEN Len(lines) - 1
       ELSE CHOOSE i \in hits : \A j \in hits : j <= i

\* the scan goes back to the first line of the file
FindMetadataIdx_Whole(lines) ==
    LET hits == {i \in 1..Len(lines) : StartsWith(lines[i], DevIDMarker)}
    IN IF hits = {} THEN Len(lines)
       ELSE CHOOSE i \in hits : \A j \in hits : j <= i

\* the scan "for i in range(len(lines) - 1, 5, -1)" for the DevID marker,
\* as a 1-based line number; the last line when no line matches
FindMetadataIdx(lines) ==
    LET hits == {i \in 7..Len(lines) : StartsWith(lines[i], DevIDMarker)}
    IN IF hits = {} THEN Len(lines)
       ELSE CHOOSE i \in hits : \A j \in hits : j <= i

\* k4, k5 and k6 default to 1.0 when the line does not carry them
CameraFromValues_One(vals, img_size) ==
    LET At(i) == IF Len(vals.v) > i THEN vals.v[i + 1] ELSE One
    IN IF vals.ok /\ Len(vals.v) >= MinCameraFields
       THEN [ok |-> TRUE,
             v |-> CameraParams(
                     KMatrix(vals.v[1], vals.v[2], vals.v[3], vals.v[4]),
                     <<vals.v[5], vals.v[6], vals.v[7], vals.v[8], vals.v[9],
                       At(9), At(10), At(11)>>,
                     img_size, Zero)]
       ELSE [ok |-> FALSE, v |-> CameraParams(Eye3, <<>>, img_size, Zero)]

\* _parse_camera_params from "if len(vals) < 9" on: vals is [ok, v]
CameraFromValues(vals, img_size) ==
    LET At(i) == IF Len(vals.v) > i THEN vals.v[i + 1] ELSE Zero
    IN IF vals.ok /\ Len(vals.v) >= MinCameraFields
       THEN [ok |-> TRUE,
             v |-> CameraParams(
                     KMatrix(vals.v[1], vals.v[2], vals.v[3], vals.v[4]),
                     <<vals.v[5], vals.v[6], vals.v[7], vals.v[8], vals.v[9],
                       At(9), At(10), At(11)>>,
                     img_size, Zero)]
       ELSE [ok |-> FALSE, v |-> CameraParams(Eye3, <<>>, img_size, Zero)]

\* SEALCalibrationLoader._parse_camera_params: [ok, v]
ParseCameraParams(line, img_size) ==
    CameraFromValues(MapParseFloat(Split(line)), img_size)

\* np.array(table_data): rows are the parsed rows, each [ok, v]; a row that
\* fails to parse raises, and the exception yields None.  Rows of unequal
\* lengths raise in numpy >= 1.24 and give an object array in the older
\* versions setup.py admits; they are None here and are kept out of the
\* inputs
TableFromRows(rows) ==
    IF /\ rows # <<>>
       /\ \A r \in 1..Len(rows) : rows[r].ok
       /\ \A r, s \in 1..Len(rows) : Len(rows[r].v) = Len(rows[s].v)
    THEN Lut(List([r \in 1..Len(rows) |-> rows[r].v]))
    ELSE NoLut

\* lines starting with "***" are read as rows too
TableLines_Stars(lines) == SelectSeq(lines, LAMBDA l : l # <<>>)

\* the lines _parse_lut_table reads: not empty and not starting with "***"
TableLines(lines) ==
    SelectSeq(lines, LAMBDA l : l # <<>> /\ ~StartsWith(l, <<"*","*","*">>))

\* the values of the lines _parse_lut_table reads, each [ok, v]
TableRows(kept) == List([r \in 1..Len(kept) |-> MapParseFloat(Split(kept[r]))])

\* SEALCalibrationLoader._parse_lut_table
ParseLutTable(lines) == TableFromRows(TableRows(TableLines(lines)))

\* SEALCalibrationLoader._parse_metadata
ParseMetadata(line) ==
    LET dev_match == RegexSearch(line, <<"D","e","v","I","D",":">>, {"*"})
        date_match == RegexSearch(line, <<"C","a","l","i","b","r","a","t","e","D","a","t","e",":">>, {"*"})
        type_match == RegexSearch(line, <<"T","y","p","e",":">>, {"*"})
        ver_match == RegexSearch(line, <<"S","o","f","t","V","e","r","s","i","o","n",":">>, {"*", " ", "\t"})
        keys == (IF dev_match.some THEN {"dev_id"} ELSE {})
                \cup (IF date_match.some THEN {"date"} ELSE {})
                \cup (IF type_match.some THEN {"type"} ELSE {})
                \cup (IF ver_match.some THEN {"version"} ELSE {})
    IN [k \in keys |->
          CASE k = "dev_id" -> dev_match.v
            [] k = "date" -> date_match.v
            [] k = "type" -> type_match.v
            [] k = "version" -> ver_match.v]

\* the placeholder stereo block takes each camera's K and distortion from
\* the other camera
LoadRecord_Crossed(resolution, scale_factors, offset_center, offset_tilt, left_params, right_params, lut_table, metadata) ==
    IF left_params.ok /\ right_params.ok
    THEN [ok |-> TRUE,
          v |-> SEALCalibration(
                  resolution, scale_factors, offset_center, offset_tilt,
                  left_params.v, right_params.v,
                  StereoParams(right_params.v.K, right_params.v.dist,
                               left_params.v.K, left_params.v.dist,
                               Eye3, Zeros31, Zeros33, Zeros33, Zero, resolution),
                  lut_table, metadata)]
    ELSE [ok |-> FALSE, v |-> <<>>]

\* load from the placeholder stereo parameters on: the record returned
LoadRecord(resolution, scale_factors, offset_center, offset_tilt, left_params, right_params, lut_table, metadata) ==
    IF left_params.ok /\ right_params.ok
    THEN [ok |-> TRUE,
          v |-> SEALCalibration(
                  resolution, scale_factors, offset_center, offset_tilt,
                  left_params.v, right_params.v,
                  StereoParams(left_params.v.K, left_params.v.dist,
                               right_params.v.K, right_params.v.dist,
                               Eye3, Zeros31, Zeros33, Zeros33, Zero, resolution),
                  lut_table, metadata)]
    ELSE [ok |-> FALSE, v |-> <<>>]

\* load from the camera lines on: the four header groups are parsed, each
\* [ok, v], and metadata_idx is the footer's line number
LoadCameras(lines, resolution, scale_factors, offset_center, offset_tilt, metadata_idx) ==
    IF resolution.ok /\ scale_factors.ok /\ offset_center.ok /\ offset_tilt.ok
    THEN LoadRecord(resolution.v, scale_factors.v, offset_center.v, offset_tilt.v,
                    ParseCameraParams(lines[5], resolution.v),
                    ParseCameraParams(lines[6], resolution.v),
                    IF metadata_idx > 8
                    THEN ParseLutTable(SubSeq(lines, 8, metadata_idx - 1))
                    ELSE NoLut,
                    ParseMetadata(lines[metadata_idx]))
    ELSE [ok |-> FALSE, v |-> <<>>]

\* load on the stripped lines: the length check, then the header groups
LoadStripped(lines) ==
    IF Len(lines) < MinLines THEN [ok |-> FALSE, v |-> <<>>]
    ELSE LoadCameras(lines, MapParseInt(Split(lines[1])), MapParseFloat(Split(lines[2])),
                     MapParseInt(Split(lines[3])), MapParseInt(Split(lines[4])),
                     FindMetadataIdx(lines))

\* SEALCalibrationLoader.load on the lines read from the file: [ok, v]
LoadLines(raw) == LoadStripped(List([i \in 1..Len(raw) |-> Strip(raw[i])]))

(***************************************************************************)
(* io/writer.py                                                            *)
(***************************************************************************)
\* datetime.now().strftime("%Y-%m-%d_%H-%M-%S") at clock value t (seconds)
StrfTime(t) == <<"2","0","2","5","-","0","6","-","0","1","_","1","2","-","0","0","-">> \o PadLeft(NatToStr(t), 2)

\* a template line of fewer than 15 fields is padded with zeroes to 15
FormatCameraLine_Padded(camera_params, template_line) ==
    Join(<<" ">>, List([i \in 1..12 |-> FormatFloat6(CalibFields(camera_params)[i])])
                  \o (IF Len(Split(template_line)) >= 15
                      THEN SubSeq(Split(template_line), 13, 15)
                      ELSE <<FormatFloat6(Zero), FormatFloat6(Zero), FormatFloat6(Zero)>>))

\* the 15-field branch drops the template's fields 13-15 (zeroes them)
FormatCameraLine_Zeroed(camera_params, template_line) ==
    Join(<<" ">>, List([i \in 1..12 |-> FormatFloat6(CalibFields(camera_params)[i])])
                  \o (IF Len(Split(template_line)) >= 15
                      THEN <<FormatFloat6(Zero), FormatFloat6(Zero), FormatFloat6(Zero)>>
                      ELSE <<>>))

\* SEALCalibrationWriter._format_camera_line
FormatCameraLine(camera_params, template_line) ==
    LET template_vals == Split(template_line)
        extra_params == IF Len(template_vals) >= 15
                        THEN SubSeq(template_vals, 10, 15) ELSE <<>>
        parts == List([i \in 1..12 |-> FormatFloat6(CalibFields(camera_params)[i])])
    IN Join(<<" ">>, parts \o (IF Len(extra_params) > 3
                               THEN SubSeq(extra_params, 4, 6) ELSE <<>>))

\* the Type of the old footer is kept instead of the recalibration label
UpdateMetadataLine_KeepType(old_line, dev_id, soft_version, now) ==
    LET sv_match == RegexSearch(old_line, <<"S","o","f","t","V","e","r","s","i","o","n",":">>, {"*", " ", "\t"})
        dev_match == RegexSearch(old_line, <<"D","e","v","I","D",":">>, {"*"})
        ty_match == RegexSearch(old_line, <<"T","y","p","e",":">>, {"*"})
    IN FooterLine(IF dev_id.some THEN dev_id.v
                  ELSE IF dev_match.some THEN dev_match.v ELSE DefaultDevID,
                  StrfTime(now),
                  IF ty_match.some THEN ty_match.v ELSE RecalibrationLabel,
                  IF soft_version.some THEN soft_version.v
                  ELSE IF sv_match.some THEN sv_match.v ELSE DefaultSoftVersion)

\* SEALCalibrationWriter._update_metadata_line; now is the clock reading
UpdateMetadataLine(old_line, dev_id, soft_version, now) ==
    LET sv_match == RegexSearch(old_line, <<"S","o","f","t","V","e","r","s","i","o","n",":">>, {"*", " ", "\t"})
        dev_match == RegexSearch(old_line, <<"D","e","v","I","D",":">>, {"*"})
        version == IF soft_version.some THEN soft_version.v
                   ELSE IF sv_match.some THEN sv_match.v ELSE DefaultSoftVersion
        devid == IF dev_id.some THEN dev_id.v
                 ELSE IF dev_match.some THEN dev_match.v ELSE DefaultDevID
    IN FooterLine(devid, StrfTime(now), RecalibrationLabel, version)

\* the template is accepted with one line fewer
TemplateLongEnough_Off(lines) == Len(lines) >= MinLines - 1

\* "if len(lines) < 10: raise ValueError" of _write_with_template
TemplateLongEnough(lines) == Len(lines) >= MinLines

\* the merge also rewrites line 6 from the record's right camera
MergeTemplate_Right(calib, lines, now) ==
    LET idx == FindMetadataIdx(lines)
    IN [i \in 1..Len(lines) |->
          IF i = idx
          THEN UpdateMetadataLine(lines[idx], MetaGet(calib.metadata, "dev_id"),
                                  MetaGet(calib.metadata, "version"), now)
          ELSE IF i = 1
          THEN FormatInt(calib.resolution[1]) \o <<" ">> \o FormatInt(calib.resolution[2])
          ELSE IF i = 5 THEN FormatCameraLine(calib.camera_left, lines[5])
          ELSE IF i = 6 THEN FormatCameraLine(calib.camera_right, lines[6])
          ELSE lines[i]]

\* the merge appends the new footer instead of replacing the old one
MergeTemplate_Append(calib, lines, now) ==
    LET idx == FindMetadataIdx(lines)
    IN [i \in 1..Len(lines) |->
          IF i = 1
          THEN FormatInt(calib.resolution[1]) \o <<" ">> \o FormatInt(calib.resolution[2])
          ELSE IF i = 5 THEN FormatCameraLine(calib.camera_left, lines[5])
          ELSE lines[i]]
       \o <<UpdateMetadataLine(lines[idx], MetaGet(calib.metadata, "dev_id"),
                               MetaGet(calib.metadata, "version"), now)>>

\* the in-memory merge of _write_with_template: lines[0], lines[4] and
\* lines[metadata_idx] are assigned in this order, every other line is kept
MergeTemplate(calib, lines, now) ==
    LET l1 == [lines EXCEPT ![1] =
                 FormatInt(calib.resolution[1]) \o <<" ">>
                 \o FormatInt(calib.resolution[2])]
        l5 == [l1 EXCEPT ![5] = FormatCameraLine(calib.camera_left, l1[5])]
        idx == FindMetadataIdx(l5)
    IN [l5 EXCEPT ![idx] =
          UpdateMetadataLine(l5[idx], MetaGet(calib.metadata, "dev_id"),
                             MetaGet(calib.metadata, "version"), now)]

(***************************************************************************)
(* core/camera.py, core/stereo.py and the optimization engine (cv2)        *)
(***************************************************************************)
\* cv2.calibrateCamera with no flags: the engine's estimate est = [K, dist]
\* for these image points, dist in the 5-coefficient model
cv2_calibrateCamera(objpoints, imgpoints, img_size, est) ==
    [ret |-> est.rms, K |-> est.K, dist |-> est.dist]

\* whether cv2.calibrateCamera runs on these lists: it raises cv2.error on
\* empty lists and on lists of different lengths, and takes any number of
\* views from one on
cv2_accepts(objpoints, imgpoints) ==
    Len(objpoints) > 0 /\ Len(objpoints) = Len(imgpoints)

\* CameraCalibrator.calibrate
CameraCalibrate(objpoints, imgpoints, img_size, est) ==
    LET r == cv2_calibrateCamera(objpoints, imgpoints, img_size, est)
    IN CameraParams(r.K, r.dist, img_size, r.ret)

\* cv2.stereoCalibrate with CALIB_FIX_INTRINSIC | CALIB_RATIONAL_MODEL: both
\* camera matrices come back as passed, each distortion vector comes back in
\* the 8-coefficient model (est.dist1 for the first camera, est.dist2 for the
\* second), R and T relate the first camera to the second
cv2_stereoCalibrate(objpoints, imgpoints1, imgpoints2, K1, dist1, K2, dist2, img_size, est) ==
    [ret |-> est.rms, K1 |-> K1, dist1 |-> est.dist1, K2 |-> K2, dist2 |-> est.dist2,
     R |-> est.R, T |-> est.T, E |-> est.E, F |-> est.F,
     args |-> [imgpoints1 |-> imgpoints1, K1 |-> K1, dist1 |-> dist1,
               imgpoints2 |-> imgpoints2, K2 |-> K2, dist2 |-> dist2]]

\* the left camera is passed first while the first result is still
\* assigned to the right camera
StereoCalibrate_LeftFirst(objpoints, imgpoints_left, imgpoints_right, cam_l, cam_r, img_size, est) ==
    LET r == cv2_stereoCalibrate(objpoints, imgpoints_left, imgpoints_right,
                                 cam_l.K, cam_l.dist, cam_r.K, cam_r.dist,
                                 img_size, est)
    IN [call |-> r.args,
        params |-> StereoParams(r.K2, r.dist2, r.K1, r.dist1,
                                r.R, r.T, r.E, r.F, r.ret, img_size)]

\* StereoCalibrator.calibrate: [call, params], call being the arguments the
\* engine received
StereoCalibrate(objpoints, imgpoints_left, imgpoints_right, cam_l, cam_r, img_size, est) ==
    LET r == cv2_stereoCalibrate(objpoints, imgpoints_right, imgpoints_left,
                                 cam_r.K, cam_r.dist, cam_l.K, cam_l.dist,
                                 img_size, est)
    IN [call |-> r.args,
        params |-> StereoParams(r.K2, r.dist2, r.K1, r.dist1,
                                r.R, r.T, r.E, r.F, r.ret, img_size)]

\* cv2.stereoRectify: the arguments the engine received; it takes R and T as
\* the transform from the first camera's frame to the second camera's
cv2_stereoRectify(K1, dist1, K2, dist2, img_size, R, T) ==
    [K1 |-> K1, dist1 |-> dist1, K2 |-> K2, dist2 |-> dist2,
     img_size |-> img_size, R |-> R, T |-> T]

\* StereoCalibrator.rectify: the call it makes to the engine
Rectify(stereo_params) ==
    cv2_stereoRectify(stereo_params.K_left, stereo_params.dist_left,
                      stereo_params.K_right, stereo_params.dist_right,
                      stereo_params.img_size, stereo_params.R, stereo_params.T)

(***************************************************************************)
(* pattern/chessboard.py, pattern/circles.py, pattern/charuco.py           *)
(***************************************************************************)
\* A frame is <<side, no>>; the points found in it are written as the frame
\* they were found in.  The detection engine, run on a frame, finds the
\* pattern ("found"), finds none ("not_found") or raises ("raises").

\* ChessboardDetector.detect: (found, corners); an exception of
\* findChessboardCorners or cornerSubPix is caught and answered (False, None)
ChessboardDetect(gray_frame, engine) ==
    IF engine = "found" THEN <<TRUE, Some(gray_frame)>> ELSE <<FALSE, None>>

\* CirclesDetector.detect: (found, centers); an exception of the blob
\* detector or of findCirclesGrid is caught and answered (False, None)
CirclesDetect(gray_frame, engine) ==
    IF engine = "found" THEN <<TRUE, Some(gray_frame)>> ELSE <<FALSE, None>>

\* CharucoDetector.detect: (found, corners, ids).  When markers are found
\* the interpolation is called with self.board, an attribute the class never
\* sets (the constructor sets self.charuco_board): the AttributeError is
\* caught like an engine exception and the answer is (False, None, None)
CharucoDetect(gray_frame, engine) ==
    CASE engine = "found" -> <<FALSE, None, None>>
      [] engine = "not_found" -> <<FALSE, None, None>>
      [] OTHER -> <<FALSE, None, None>>

\* detector.detect(gray) as the loops call it
Detect(detector_class, gray_frame, engine) ==
    CASE detector_class = "chessboard" -> ChessboardDetect(gray_frame, engine)
      [] detector_class = "circles" -> CirclesDetect(gray_frame, engine)
      [] OTHER -> CharucoDetect(gray_frame, engine)

\* the right list is left out
AppendSample_LeftOnly(lists, corners_l, corners_r) ==
    [objpoints |-> Append(lists.objpoints, "object_points"),
     imgpoints_left |-> Append(lists.imgpoints_left, corners_l),
     imgpoints_right |-> lists.imgpoints_right]

\* "objpoints.append(detector.get_object_points())",
\* "imgpoints_left.append(corners_l)", "imgpoints_right.append(corners_r)"
AppendSample(lists, corners_l, corners_r) ==
    [objpoints |-> Append(lists.objpoints, "object_points"),
     imgpoints_left |-> Append(lists.imgpoints_left, corners_l),
     imgpoints_right |-> Append(lists.imgpoints_right, corners_r)]

(***************************************************************************)
(* core/validation.py                                                      *)
(***************************************************************************)
\* int(v) of a float: truncation toward zero
IntOf(v) == IF v.neg THEN 0 - v.ip ELSE v.ip

\* min(int(x / (size / n)), n - 1), the quotient taken exactly: the index
\* of the grid cell the integer coordinate x is put in
CellIndex(x, size, n) ==
    LET q == IF x >= 0 THEN (x * n) \div size ELSE 0 - (((0 - x) * n) \div size)
    IN IF q < n - 1 THEN q ELSE n - 1

\* the pairs (cell_y, cell_x) the loop of check_calibration_coverage indexes
\* covered[...] with, before numpy resolves negative indices
CoverageIndices(imgpoints, img_size, grid_size) ==
    UNION { { <<CellIndex(IntOf(imgpoints[s][k][2]), img_size[2], grid_size[2]),
                CellIndex(IntOf(imgpoints[s][k][1]), img_size[1], grid_size[1])>> :
                k \in 1..Len(imgpoints[s]) } :
            s \in 1..Len(imgpoints) }

\* the count of covered cells is doubled
CheckCalibrationCoverage_Twice(imgpoints, img_size, grid_size) ==
    [ok |-> TRUE,
     num |-> 2 * Cardinality(CoverageIndices(imgpoints, img_size, grid_size)),
     den |-> grid_size[1] * grid_size[2]]

\* CalibrationValidator.check_calibration_coverage: the ratio num/den, or the
\* error raised.  A division by a zero grid dimension raises; an index below
\* -n raises IndexError, an index in -n..-1 counts from the end of the axis
CheckCalibrationCoverage(imgpoints, img_size, grid_size) ==
    IF grid_size[1] = 0 \/ grid_size[2] = 0
    THEN [ok |-> FALSE, num |-> 0, den |-> 0]
    ELSE IF \E c \in CoverageIndices(imgpoints, img_size, grid_size) :
               c[1] < 0 - grid_size[2] \/ c[2] < 0 - grid_size[1]
    THEN [ok |-> FALSE, num |-> 0, den |-> grid_size[1] * grid_size[2]]
    ELSE [ok |-> TRUE,
          num |-> Cardinality(
                     { <<IF c[1] < 0 THEN c[1] + grid_size[2] ELSE c[1],
                         IF c[2] < 0 THEN c[2] + grid_size[1] ELSE c[2]>> :
                         c \in CoverageIndices(imgpoints, img_size, grid_size) }),
          den |-> grid_size[1] * grid_size[2]]

(***************************************************************************)
(* State                                                                   *)
(***************************************************************************)
VARIABLES
    fs,         \* the file system: path -> [exists, lines]
    calib,      \* the SEALCalibration record the caller holds
    clock,      \* datetime.now(), in seconds; one tick per operation
    last,       \* the last codec call: its arguments, outcome and the state before it
    origin,     \* history: for each path, how its content was produced
    script,     \* the export script that runs: which main()
    pc,         \* the statement of main() that runs next
    camera_left,    \* main's camera_left
    camera_right,   \* main's camera_right
    stereo_params,  \* main's stereo_params
    engine_call,    \* the arguments of the last cv2.stereoCalibrate call, by position
    template_calib, \* main's template_calib
    left_images,    \* process_from_images: len(left_images)
    right_images,   \* process_from_images: len(right_images)
    pair,           \* process_from_images: the pairs the loop has gone through
    collected,      \* process_from_images: len(objpoints)
    detector,       \* the detector handed to the loop: the class it is of
    num_images,     \* capture_from_cameras: num_images
    captured,       \* capture_from_cameras: captured
    samples,        \* the loop's lists objpoints, imgpoints_left, imgpoints_right
    turn,           \* history: the frames, detections and key of the last turn of the loop
    request,        \* a library function called on its own: the function and its arguments
    response        \* what the call returned or raised

codecVars == <<fs, calib, clock, last, origin>>

scriptVars == <<script, pc, camera_left, camera_right, stereo_params, engine_call, template_calib>>

batchVars == <<left_images, right_images, pair, collected, detector, num_images, captured, samples, turn>>

unitVars == <<request, response>>

vars == <<fs, calib, clock, last, origin, script, pc, camera_left, camera_right, stereo_params, engine_call, template_calib, left_images, right_images, pair, collected, detector, num_images, captured, samples, turn, request, response>>

Paths == {"template.txt", "out.txt"}

NoFile == [exists |-> FALSE, lines |-> <<>>]

File(lines) == [exists |-> TRUE, lines |-> lines]

(***************************************************************************)
(* Initial device files and records                                        *)
(***************************************************************************)
FactoryDevID == <<"J","M","S","1","0","0","6","2","0","7">>

FactoryVersion == <<"3",".","0",".","0",".","1","1","0","0">>

FactoryFooter ==
    <<"*","*","*","D","e","v","I","D",":","J","M","S","1","0","0","6","2","0","7","*","*","*","C","a","l","i","b","r","a","t","e","D","a","t","e",":","2","0","2","3","-","0","5","-","0","5","_","1","0","-","1","0","-","1","0","*","*","*","T","y","p","e",":","F","a","c","t","o","r","y","-","1","2","*","*","*","S","o","f","t","V","e","r","s","i","o","n",":","3",".","0",".","0",".","1","1","0","0">>

FactoryLine5Short == <<"1","0","0","0",".","0"," ","1","0","0","0",".","0"," ","3","2","0",".","0"," ","2","4","0",".","0"," ","0",".","0"," ","0",".","0"," ","0",".","0"," ","0",".","0"," ","0",".","0">>

FactoryLine5Full ==
    <<"1","0","0","0",".","0"," ","1","0","0","0",".","0"," ","3","2","0",".","0"," ","2","4","0",".","0"," ","0",".","1"," ","0",".","0"," ","0",".","0"," ","0",".","0"," ","0",".","0"," ","0",".","0"," ","0",".","0"," ","0",".","0"," ","2","8",".","5"," ","0",".","0","1"," ","1",".","6">>

\* a line 5 with a sixteenth field
FactoryLine5Long == FactoryLine5Full \o <<" ","7",".","7","5">>

FactoryLine6 ==
    <<"9","9","0",".","5"," ","9","9","1",".","2","5"," ","3","0","0",".","0"," ","2","5","0",".","0"," ","-","0",".","1"," ","0",".","0","5"," ","0",".","0"," ","0",".","0"," ","0",".","0"," ","0",".","0"," ","0",".","0"," ","0",".","0"," ","1",".","5"," ","2",".","5"," ","3",".","5">>

FactoryLine7 ==
    <<"2","8","0","0",".","5"," ","2","4","7","7",".","0"," ","5","4","2",".","0"," ","3","5","3",".","0"," ","-","0",".","2","2"," ","-","0",".","2","9","5"," ","0",".","0"," ","0",".","0"," ","4",".","0"," ","0",".","0"," ","0",".","0"," ","0",".","0"," ","2","8",".","3"," ","0",".","0","1"," ","1",".","6","6">>

\* the r-th lookup-table row of a factory file
FactoryLutRow(r) == NatToStr(r) \o <<".","5"," ">> \o NatToStr(r + 1) \o <<".","2","5">>

\* a factory device file with n lookup-table rows and an optional footer
DeviceFile(line5, n, footer) ==
    << <<"6","4","0"," ","4","8","0">>, <<"1","1",".","6"," ","4",".","4">>, <<"1","6","2"," ","1","1","0">>, <<"4"," ","-","8","0">>,
       line5, FactoryLine6, FactoryLine7 >>
    \o [r \in 1..n |-> FactoryLutRow(r)]
    \o footer

\* files of MinLines - 1, MinLines and MinLines + 1 lines with a footer (for
\* MaxLutRows = 3), one of MinLines lines that ends with a table row, and one
\* whose line 5 has sixteen fields
InitialFiles ==
    { DeviceFile(line5, n, <<FactoryFooter>>) :
        line5 \in {FactoryLine5Short, FactoryLine5Full},
        n \in (MaxLutRows - 2)..MaxLutRows }
    \cup { DeviceFile(line5, MaxLutRows, <<>>) :
             line5 \in {FactoryLine5Short, FactoryLine5Full} }
    \cup { DeviceFile(FactoryLine5Long, MaxLutRows, <<FactoryFooter>>) }

CamLeft5 ==
    CameraParams(
        KMatrix(Flt(FALSE, 1100, 5000000), Flt(FALSE, 1101, 2500000),
                Flt(FALSE, 640, 0), Flt(FALSE, 360, 1234567)),
        << Flt(TRUE, 0, 1234564), Flt(FALSE, 0, 500006), Flt(FALSE, 0, 4),
           Flt(TRUE, 0, 10000), Flt(FALSE, 0, 9999996) >>,
        <<1280, 720>>, Flt(FALSE, 0, 3100000))

CamLeft8 ==
    CameraParams(
        KMatrix(Flt(FALSE, 1210, 7500000), Flt(FALSE, 1211, 0),
                Flt(FALSE, 639, 5000000), Flt(FALSE, 361, 0)),
        << Flt(TRUE, 0, 2000000), Flt(FALSE, 0, 300000), Flt(FALSE, 0, 0),
           Flt(FALSE, 0, 20000), Flt(FALSE, 0, 0),
           Flt(FALSE, 0, 1100000), Flt(TRUE, 0, 2200000), Flt(FALSE, 0, 3300000) >>,
        <<1280, 720>>, Flt(FALSE, 0, 2800000))

CamRight ==
    CameraParams(
        KMatrix(Flt(FALSE, 1050, 2500000), Flt(FALSE, 1051, 0),
                Flt(FALSE, 600, 0), Flt(FALSE, 400, 5000000)),
        << Flt(FALSE, 0, 1500000), Flt(TRUE, 0, 700000), Flt(FALSE, 0, 0),
           Flt(FALSE, 0, 0), Flt(FALSE, 0, 100000),
           Flt(FALSE, 0, 4400000), Flt(FALSE, 0, 5500000), Flt(TRUE, 0, 6600000) >>,
        <<1280, 720>>, Flt(FALSE, 0, 2900000))

RecordLut ==
    Lut(<< <<Flt(FALSE, 7, 5000000), Flt(FALSE, 8, 0)>>,
           <<Flt(FALSE, 9, 2500000), Flt(TRUE, 1, 0)>>,
           <<Flt(FALSE, 3, 0), Flt(FALSE, 4, 1250000)>> >>)

FullMetadata ==
    [dev_id |-> <<"J","M","S","2","0","0","0","0","0","1">>, date |-> <<"2","0","2","5","-","0","1","-","0","2","_","0","3","-","0","4","-","0","5">>,
     type |-> <<"C","u","s","t","o","m","-","7">>, version |-> <<"3",".","1",".","0",".","2","0","0","0">>]

\* the metadata dictionaries: empty, dev_id only, all but dev_id, complete
InitialMetadata ==
    { [k \in keys |-> FullMetadata[k]] :
        keys \in { {}, {"dev_id"}, {"date", "type", "version"},
                   {"dev_id", "date", "type", "version"} } }

\* a record as a calibration run builds it
FreshRecord(resolution, left, lut_table, metadata) ==
    SEALCalibration(resolution,
                    <<Flt(FALSE, 12, 0), Flt(FALSE, 5, 5000000)>>,
                    <<100, 50>>, <<3, -70>>,
                    left, CamRight,
                    StereoParams(left.K, left.dist,
                                 CamRight.K, CamRight.dist,
                                 Eye3, Zeros31, Zeros33, Zeros33, Zero, resolution),
                    lut_table, metadata)

\* a run at the device resolution with the rational model and no table, and
\* a run at 640x480 with the 5-coefficient model and a table
InitialRecords ==
    { FreshRecord(run[1], run[2], run[3], metadata) :
        run \in { <<<<1280, 720>>, CamLeft8, NoLut>>,
                  <<<<640, 480>>, CamLeft5, RecordLut>> },
        metadata \in InitialMetadata }

NoCall ==
    [op |-> "none", ok |-> TRUE, path |-> "", template |-> "",
     calib |-> <<>>, before |-> <<>>, now |-> 0]

Call(op, ok, path, template) ==
    [op |-> op, ok |-> ok, path |-> path, template |-> template,
     calib |-> calib, before |-> fs, now |-> clock]

\* a variable main() has not assigned yet
Unset == [set |-> FALSE]

\* "objpoints = []", "imgpoints_left = []", "imgpoints_right = []"
NoSamples == [objpoints |-> <<>>, imgpoints_left |-> <<>>, imgpoints_right |-> <<>>]

\* no batch of images is being processed
NoBatch ==
    /\ left_images = 0 /\ right_images = 0 /\ pair = 0 /\ collected = 0
    /\ detector = "chessboard"
    /\ num_images = 0
    /\ captured = 0
    /\ samples = NoSamples
    /\ turn = Unset

\* no library function is called on its own
NoRequest == request = [fn |-> "none"] /\ response = Unset

InitCodec ==
    /\ \E f \in InitialFiles :
          fs = [p \in Paths |-> IF p = "template.txt" THEN File(f) ELSE NoFile]
    /\ clock = 0
    /\ last = NoCall
    /\ origin = [p \in Paths |->
                    [kind |-> IF p = "template.txt" THEN "factory" ELSE "none",
                     rec |-> <<>>]]

\* the codec used on its own: no script runs
Init ==
    /\ InitCodec
    /\ calib \in InitialRecords
    /\ script = "none"
    /\ pc = "none"
    /\ camera_left = Unset
    /\ camera_right = Unset
    /\ stereo_params = Unset
    /\ engine_call = Unset
    /\ template_calib = Unset
    /\ NoBatch
    /\ NoRequest

(***************************************************************************)
(* Operations                                                              *)
(***************************************************************************)
\* SEALCalibrationWriter.write(calib, output_path) -> _write_direct
WriteDirect(output_path) ==
    /\ clock < MaxOps
    /\ clock' = clock + 1
    /\ calib' = calib
    /\ IF CanFormat(calib)
       THEN /\ fs' = [fs EXCEPT ![output_path] = File(ToSealFormat(calib))]
            /\ origin' = [origin EXCEPT ![output_path] =
                             [kind |-> "direct", rec |-> calib]]
            /\ last' = Call("write_direct", TRUE, output_path, "")
       ELSE /\ UNCHANGED <<fs, origin>>
            /\ last' = Call("write_direct", FALSE, output_path, "")

\* the merge also writes the merged lines back to the template path
WriteWithTemplate_Touch(output_path, template_path) ==
    /\ clock < MaxOps
    /\ clock' = clock + 1
    /\ calib' = calib
    /\ IF /\ fs[template_path].exists
          /\ TemplateLongEnough(fs[template_path].lines)
          /\ Len(calib.resolution) >= 2
       THEN /\ fs' = [p \in Paths |->
                        IF p \in {output_path, template_path}
                        THEN File(MergeTemplate(calib, fs[template_path].lines, clock))
                        ELSE fs[p]]
            /\ origin' = [origin EXCEPT ![output_path] =
                             [kind |-> "merged", rec |-> calib]]
            /\ last' = Call("write_template", TRUE, output_path, template_path)
       ELSE /\ UNCHANGED <<fs, origin>>
            /\ last' = Call("write_template", FALSE, output_path, template_path)

\* SEALCalibrationWriter.write(calib, output_path, template_path)
\*   -> _write_with_template: read the template, check its length, merge,
\*      then open and write the output file
WriteWithTemplate(output_path, template_path) ==
    /\ clock < MaxOps
    /\ clock' = clock + 1
    /\ calib' = calib
    /\ IF /\ fs[template_path].exists
          /\ TemplateLongEnough(fs[template_path].lines)
          /\ Len(calib.resolution) >= 2
       THEN /\ fs' = [fs EXCEPT ![output_path] =
                        File(MergeTemplate(calib, fs[template_path].lines, clock))]
            /\ origin' = [origin EXCEPT ![output_path] =
                             [kind |-> "merged", rec |-> calib]]
            /\ last' = Call("write_template", TRUE, output_path, template_path)
       ELSE /\ UNCHANGED <<fs, origin>>
            /\ last' = Call("write_template", FALSE, output_path, template_path)

\* SEALCalibrationLoader.load(filepath); the caller keeps the returned record
Load(filepath) ==
    /\ clock < MaxOps
    /\ clock' = clock + 1
    /\ UNCHANGED <<fs, origin>>
    /\ IF fs[filepath].exists /\ LoadLines(fs[filepath].lines).ok
       THEN /\ calib' = LoadLines(fs[filepath].lines).v
            /\ last' = Call("load", TRUE, filepath, "")
       ELSE /\ calib' = calib
            /\ last' = Call("load", FALSE, filepath, "")

(***************************************************************************)
(* examples/stereo_calibration_complete.py and examples/stereo_to_seal.py: *)
(* main() from the single-camera calibrations to the export                *)
(***************************************************************************)
Scripts == {"stereo_calibration_complete", "stereo_to_seal"}

\* the correspondences handed to the engine, named by the camera they are of
ObjPoints == "objpoints"

ImgPointsLeft == "imgpoints_left"

ImgPointsRight == "imgpoints_right"

ImgSize == <<640, 480>>

\* --dev-id
ArgDevId == <<"J","M","S","1","0","0","6","2","0","7">>

\* what the engine may estimate for one camera: K and 5 coefficients
SingleEstimates ==
    { [K |-> CamLeft5.K, dist |-> CamLeft5.dist, rms |-> Flt(FALSE, 0, 3100000)],
      [K |-> CamRight.K, dist |-> SubSeq(CamRight.dist, 1, 5),
       rms |-> Flt(FALSE, 0, 2900000)] }

\* what the engine may estimate for the pair: 8 coefficients per camera
StereoEstimates ==
    { [dist1 |-> d1, dist2 |-> d2, R |-> Eye3,
       T |-> <<<<Flt(TRUE, 60, 0)>>, <<Zero>>, <<Flt(FALSE, 1, 5000000)>>>>,
       E |-> Zeros33, F |-> Zeros33, rms |-> Flt(FALSE, 0, 4500000)] :
        d1 \in {CamLeft8.dist, CamRight.dist},
        d2 \in {CamLeft8.dist, CamRight.dist} }

InitScript ==
    /\ InitCodec
    /\ calib = Unset
    /\ script \in Scripts
    /\ pc = "calibrate_left"
    /\ camera_left = Unset
    /\ camera_right = Unset
    /\ stereo_params = Unset
    /\ engine_call = Unset
    /\ template_calib = Unset
    /\ NoBatch
    /\ NoRequest

\* camera_left = cam_calibrator.calibrate(objpoints, imgpoints_left, img_size)
CalibrateLeft ==
    /\ pc = "calibrate_left"
    /\ \E est \in SingleEstimates :
          camera_left' = CameraCalibrate(ObjPoints, ImgPointsLeft, ImgSize, est)
    /\ pc' = "calibrate_right"
    /\ UNCHANGED <<script, camera_right, stereo_params, engine_call, template_calib>>
    /\ UNCHANGED codecVars

\* camera_right = cam_calibrator.calibrate(objpoints, imgpoints_right, img_size)
CalibrateRight ==
    /\ pc = "calibrate_right"
    /\ \E est \in SingleEstimates :
          camera_right' = CameraCalibrate(ObjPoints, ImgPointsRight, ImgSize, est)
    /\ pc' = "stereo"
    /\ UNCHANGED <<script, camera_left, stereo_params, engine_call, template_calib>>
    /\ UNCHANGED codecVars

\* stereo_params = stereo_calibrator.calibrate(objpoints, imgpoints_left,
\*     imgpoints_right, camera_left, camera_right, img_size)
CalibrateStereo ==
    /\ pc = "stereo"
    /\ \E est \in StereoEstimates :
          LET r == StereoCalibrate(ObjPoints, ImgPointsLeft, ImgPointsRight,
                                   camera_left, camera_right, ImgSize, est)
          IN /\ stereo_params' = r.params
             /\ engine_call' = r.call
    /\ pc' = CASE script = "stereo_calibration_complete" -> "reconcile"
               [] script = "stereo_to_seal" -> "load_template"
               [] OTHER -> "done"
    /\ UNCHANGED <<script, camera_left, camera_right, template_calib>>
    /\ UNCHANGED codecVars

\* stereo_calibration_complete.py only: camera_left and camera_right are
\* rebuilt with their K and the distortion of stereo_params
Reconcile ==
    /\ pc = "reconcile"
    /\ camera_left' = CameraParams(camera_left.K, stereo_params.dist_left,
                                   ImgSize, camera_left.rms_error)
    /\ camera_right' = CameraParams(camera_right.K, stereo_params.dist_right,
                                    ImgSize, camera_right.rms_error)
    /\ pc' = "load_template"
    /\ UNCHANGED <<script, stereo_params, engine_call, template_calib>>
    /\ UNCHANGED codecVars

\* template_calib = SEALCalibrationLoader.load(args.template); on an error
\* stereo_to_seal.py ends with the exception, stereo_calibration_complete.py
\* warns and ends without an export
LoadTemplate ==
    /\ pc = "load_template"
    /\ LET r == LoadLines(fs["template.txt"].lines)
       IN IF r.ok
          THEN /\ template_calib' = r.v
               /\ pc' = "build"
          ELSE /\ template_calib' = template_calib
               /\ pc' = IF script = "stereo_to_seal" THEN "raised" ELSE "done"
    /\ UNCHANGED <<script, camera_left, camera_right, stereo_params, engine_call>>
    /\ UNCHANGED codecVars

\* seal_calib = SEALCalibration(resolution=(1280, 720), ...)
BuildRecord ==
    /\ pc = "build"
    /\ calib' = SEALCalibration(
                    <<1280, 720>>, template_calib.scale_factors,
                    template_calib.offset_center, template_calib.offset_tilt,
                    camera_left, camera_right, stereo_params,
                    template_calib.lut_table,
                    [dev_id |-> ArgDevId,
                     date |-> StrfTime(clock),
                     type |-> IF script = "stereo_to_seal" THEN RecalibrationLabel
                              ELSE MetaGetDefault(template_calib.metadata, "type",
                                                  <<"F","a","c","t","o","r","y","-","1","2">>),
                     version |-> DefaultSoftVersion])
    /\ pc' = "write"
    /\ UNCHANGED <<fs, clock, last, origin>>
    /\ UNCHANGED <<script, camera_left, camera_right, stereo_params, engine_call, template_calib>>

\* SEALCalibrationWriter.write(seal_calib, output, args.template)
ExportRecord ==
    /\ pc = "write"
    /\ WriteWithTemplate("out.txt", "template.txt")
    /\ pc' = "done"
    /\ UNCHANGED <<script, camera_left, camera_right, stereo_params, engine_call, template_calib>>

(***************************************************************************)
(* Library functions called on their own, each on one bounded input        *)
(***************************************************************************)
\* the most fields on a camera line under test
MaxFields == 16

\* the most lines between line 7 and the footer of a file under test
MaxBody == 3

\* the longest distortion vector under test
MaxDist == 9

\* the most correspondence sets passed to one calibration
MaxSets == 5

\* the i-th field of a camera line under test
TestField(i) == NatToStr(i) \o <<".","5">>

\* a camera line of n fields
TestCameraLine(n) == Join(<<" ">>, List([i \in 1..n |-> TestField(i)]))

\* a factory file of eleven lines with the given lines 5 and 6
FileWithCameras(line5, line6) ==
    [DeviceFile(line5, 3, <<FactoryFooter>>) EXCEPT ![6] = line6]

\* calib = SEALCalibrationLoader.load(filepath), the file's lines given
UnitLoad ==
    /\ request.fn = "load"
    /\ response = Unset
    /\ response' = LoadLines(request.lines)
    /\ UNCHANGED request

\* the kinds of line between line 7 and the footer: two rows of floats, a
\* blank line, a row with a field that is no float, a "***" comment
BodyKinds == << <<"1",".","5"," ","2",".","2","5">>, <<"3",".","0"," ","4",".","1","2","5">>, <<>>, <<"a","b","c"," ","1",".","0">>, <<"*","*","*"," ","n","o","t","e">> >>

\* the bodies under test: up to MaxBody lines, each of one of the kinds
Bodies == UNION { [1..k -> 1..Len(BodyKinds)] : k \in 0..MaxBody }

\* a file with the given body on lines 8.., then the footer, then blank lines
\* up to MinLines lines
TableFile(body) ==
    DeviceFile(FactoryLine5Full, 0, <<>>)
    \o [i \in 1..Len(body) |-> BodyKinds[body[i]]]
    \o <<FactoryFooter>>
    \o [i \in 1..(MinLines - 8 - Len(body)) |-> <<>>]

\* what one of lines 1..6 of a file under test is replaced by: a blank
\* line, one field, three fields, a field that is no number, a field that
\* is a float but no integer, nine fields of which the last is no number
HeaderVariants ==
    << <<>>, <<"6","4","0">>, <<"6","4","0"," ","4","8","0"," ","3">>, <<"6","4","0"," ","x">>, <<"6",".","5"," ","4","8","0">>,
       <<"1"," ","2"," ","3"," ","4"," ","5"," ","6"," ","7"," ","8"," ","x","9">> >>

\* the "key:value" segments a footer under test is made of
FooterSegments ==
    << <<"D","e","v","I","D",":","J","1">>, <<"C","a","l","i","b","r","a","t","e","D","a","t","e",":","D","7">>, <<"S","u","b","T","y","p","e",":","B","e","t","a">>,
       <<"T","y","p","e",":","F","a","c","t","o","r","y","-","1","2">>, <<"V","e","n","d","o","r",":","A","c","m","e">>, <<"S","o","f","t","V","e","r","s","i","o","n",":","3",".","0">> >>

\* the footer with the segments whose numbers are in chosen, in that order
FooterOf(chosen) ==
    <<"*","*","*">> \o Join(<<"*","*","*">>,
                   List([i \in 1..Len(SelectSeq(<<1, 2, 3, 4, 5, 6>>, LAMBDA n : n \in chosen)) |->
                           FooterSegments[SelectSeq(<<1, 2, 3, 4, 5, 6>>, LAMBDA n : n \in chosen)[i]]]))

\* a file of MinLines lines that ends with the footer
FooterFile(chosen) == DeviceFile(FactoryLine5Full, 2, <<FooterOf(chosen)>>)

\* the lines of a template under test that may begin with the DevID marker
MarkPositions == {2, 5, 6, 7, 9, 11}

\* a footer-like line that names the line it stands on
MarkerLine(i) ==
    DevIDMarker \o <<"O","L","D">> \o NatToStr(i)
    \o <<"*","*","*","C","a","l","i","b","r","a","t","e","D","a","t","e",":","2","0","2","0","-","0","1","-","0","1","_","0","0","-","0","0","-","0","0","*","*","*","T","y","p","e",":","F","a","c","t","o","r","y","-","1","2","*","*","*","S","o","f","t","V","e","r","s","i","o","n",":","1",".">>
    \o NatToStr(i)

\* a template of eleven lines of which exactly those in marks begin with the
\* DevID marker
MarkedFile(marks) ==
    [i \in 1..11 |->
        IF i \in marks THEN MarkerLine(i)
        ELSE DeviceFile(FactoryLine5Full, 4, <<>>)[i]]

\* the lines with prefix put before each of those numbered in at
Prefixed(lines, at, prefix) ==
    [i \in 1..Len(lines) |-> IF i \in at THEN prefix \o lines[i] ELSE lines[i]]

\* SEALCalibrationWriter._write_with_template, the template's lines given:
\* the lines it writes
UnitMerge ==
    /\ request.fn = "merge"
    /\ response = Unset
    /\ response' =
          IF TemplateLongEnough(request.lines) /\ Len(request.calib.resolution) >= 2
          THEN [ok |-> TRUE,
                v |-> MergeTemplate(request.calib, request.lines, request.now)]
          ELSE [ok |-> FALSE, v |-> <<>>]
    /\ UNCHANGED request

\* the i-th coefficient of a distortion vector under test, never 0.0
Coefficient(i) == Flt(i % 2 = 1, 0, i * 1000000 + 1)

\* the distortion array of n coefficients as OpenCV or a caller shapes it:
\* (n,), (1, n) or (n, 1)
Shaped(shape, n) ==
    CASE shape = "flat" -> [i \in 1..n |-> Coefficient(i)]
      [] shape = "row" -> <<[i \in 1..n |-> Coefficient(i)]>>
      [] shape = "column" -> [i \in 1..n |-> <<Coefficient(i)>>]

\* dist.flatten() of an array of the given shape
Flatten(shape, array) ==
    CASE shape = "flat" -> array
      [] shape = "row" -> array[1]
      [] shape = "column" -> [i \in 1..Len(array) |-> array[i][1]]

\* the properties fx .. k6 of a CameraParams read one after the other
UnitAccessors ==
    /\ request.fn = "accessors"
    /\ response = Unset
    /\ response' =
          [ok |-> TRUE,
           v |-> CalibFields(CameraParams(Eye3, Flatten(request.shape, request.dist),
                                          ImgSize, Zero))]
    /\ UNCHANGED request

\* CameraCalibrator.calibrate(objpoints, imgpoints, img_size) called on its
\* own: nothing is checked before the engine is called, an engine error
\* propagates
UnitCalibrate ==
    /\ request.fn = "calibrate"
    /\ response = Unset
    /\ response' =
          IF cv2_accepts(request.objpoints, request.imgpoints)
          THEN [ok |-> TRUE,
                v |-> CameraCalibrate(request.objpoints, request.imgpoints,
                                      ImgSize, request.est)]
          ELSE [ok |-> FALSE, v |-> "cv2.error"]
    /\ UNCHANGED request

\* StereoCalibrator.rectify(stereo_params) called with the result of
\* StereoCalibrator.calibrate
UnitRectify ==
    /\ request.fn = "rectify"
    /\ response = Unset
    /\ response' = [ok |-> TRUE, v |-> Rectify(request.calibrated.params)]
    /\ UNCHANGED request

\* the most point sets in one list handed to the coverage check
MaxPointSets == 2

\* the point sets under test for an image of 8 x 6 pixels: two with points
\* inside the image, one right of it, one left of it by more than one cell
\* of the 4 x 3 grid, one left of it by more than the whole grid, one empty
PointSets ==
    << << <<Flt(FALSE, 2, 7500000), Flt(FALSE, 1, 0)>>,
          <<Flt(FALSE, 4, 2500000), Flt(FALSE, 4, 0)>> >>,
       << <<Flt(FALSE, 7, 0), Flt(FALSE, 5, 7500000)>>,
          <<Flt(FALSE, 1, 0), Flt(FALSE, 1, 0)>> >>,
       << <<Flt(FALSE, 9, 0), Flt(FALSE, 1, 0)>> >>,
       << <<Flt(TRUE, 3, 0), Flt(FALSE, 4, 0)>> >>,
       << <<Flt(TRUE, 11, 0), Flt(FALSE, 1, 0)>> >>,
       << >> >>

\* CalibrationValidator.check_calibration_coverage(imgpoints, img_size,
\* grid_size) called on its own
UnitCoverage ==
    /\ request.fn = "coverage"
    /\ response = Unset
    /\ response' = CheckCalibrationCoverage(request.imgpoints, request.img_size,
                                            request.grid_size)
    /\ UNCHANGED request

\* one library function is about to be called on one input; no file exists
\* and no script runs.  The inputs: files whose line 5 or line 6 has
\* 0..MaxFields fields, files with every body, files with one of lines
\* 1..6 replaced by every variant, files with every footer,
\* every marked template, also with a blank or a "#" before the markers
\* on lines 9 and 11, loaded and merged with every initial record, templates
\* whose line 5 has 0..MaxFields fields merged with every record, distortion
\* arrays of 0..MaxDist coefficients in the three shapes, lists of up to
\* MaxPointSets point sets with three grids, 0..MaxSets
\* correspondence sets with every estimate of the engine
InitUnit ==
    /\ fs = [p \in Paths |-> NoFile]
    /\ clock = 0
    /\ last = NoCall
    /\ origin = [p \in Paths |-> [kind |-> "none", rec |-> <<>>]]
    /\ calib = Unset
    /\ script = "none"
    /\ pc = "none"
    /\ camera_left = Unset
    /\ camera_right = Unset
    /\ stereo_params = Unset
    /\ engine_call = Unset
    /\ template_calib = Unset
    /\ NoBatch
    /\ response = Unset
    /\ \/ \E n \in 0..MaxFields :
             request = [fn |-> "load",
                        lines |-> FileWithCameras(TestCameraLine(n), FactoryLine6)]
       \/ \E n \in 0..MaxFields :
             request = [fn |-> "load",
                        lines |-> FileWithCameras(FactoryLine5Full, TestCameraLine(n))]
       \/ \E body \in Bodies : request = [fn |-> "load", lines |-> TableFile(body)]
       \/ \E i \in 1..6, v \in 1..Len(HeaderVariants) :
             request = [fn |-> "load",
                        lines |-> [FileWithCameras(FactoryLine5Full, FactoryLine6)
                                      EXCEPT ![i] = HeaderVariants[v]]]
       \/ \E chosen \in SUBSET (1..Len(FooterSegments)) :
             request = [fn |-> "load", lines |-> FooterFile(chosen)]
       \/ \E marks \in SUBSET MarkPositions :
             \E at \in SUBSET (marks \cap {9, 11}), prefix \in {<<" ">>, <<"#">>} :
                \/ request = [fn |-> "load",
                              lines |-> Prefixed(MarkedFile(marks), at, prefix)]
                \/ \E c \in InitialRecords :
                      request = [fn |-> "merge", calib |-> c,
                                 lines |-> Prefixed(MarkedFile(marks), at, prefix),
                                 now |-> 7]
       \/ \E n \in 0..MaxFields, c \in InitialRecords :
             request = [fn |-> "merge", calib |-> c,
                        lines |-> FileWithCameras(TestCameraLine(n), FactoryLine6),
                        now |-> 7]
       \/ \E n \in 0..MaxDist, shape \in {"flat", "row", "column"} :
             request = [fn |-> "accessors", shape |-> shape, dist |-> Shaped(shape, n)]
       \/ \E chosen \in UNION { [1..k -> 1..Len(PointSets)] : k \in 0..MaxPointSets },
             grid_size \in {<<4, 3>>, <<3, 3>>, <<0, 3>>} :
             request = [fn |-> "coverage",
                        imgpoints |-> [i \in 1..Len(chosen) |-> PointSets[chosen[i]]],
                        img_size |-> <<8, 6>>,
                        grid_size |-> grid_size]
       \/ \E cam_l \in {CamLeft5, CamLeft8, CamRight}, cam_r \in {CamLeft5, CamRight},
             est \in StereoEstimates :
             request = [fn |-> "rectify",
                        calibrated |-> StereoCalibrate(ObjPoints, ImgPointsLeft,
                                                       ImgPointsRight, cam_l, cam_r,
                                                       ImgSize, est)]
       \/ \E n \in 0..MaxSets, est \in SingleEstimates :
             request = [fn |-> "calibrate",
                        objpoints |-> [i \in 1..n |-> ObjPoints],
                        imgpoints |-> [i \in 1..n |-> ImgPointsLeft],
                        est |-> est]

(***************************************************************************)
(* process_from_images of examples/stereo_to_seal.py and of                *)
(* seal_calip/stereo_calibration.py, process_images_from_directory of      *)
(* examples/stereo_calibration_complete.py, capture_from_cameras of        *)
(* seal_calip/stereo_calibration.py, and the main() that calls them        *)
(***************************************************************************)
\* the most images of one side in the directory
MaxImages == 4

\* the most turns of the live-capture loop
MaxFrames == 5

\* the most image pairs asked of the live capture (--images)
MaxCaptures == 4

\* "if len(objpoints) < 4", "if captured < 4"
MinPairs == 4

\* the scripts that process a directory of image pairs; seal_calip stops
\* after the stereo calibration (it saves an array archive, no device file)
BatchScripts == Scripts \cup {"seal_calip"}

\* the detectors main() constructs: a ChessboardDetector, and in
\* stereo_calibration_complete.py a CirclesDetector for --pattern-type
\* circles (its CharucoDetector call lacks marker_length and raises
\* TypeError)
MainDetectors(name) ==
    IF name = "stereo_calibration_complete" THEN {"chessboard", "circles"}
    ELSE {"chessboard"}

\* the processing function (any script) or the live capture (seal_calip) is
\* about to be called with a detector of one of the three classes; the
\* main() functions themselves construct a ChessboardDetector, and
\* stereo_calibration_complete.py a CirclesDetector on request; seal_calip
\* reads and writes no device file
InitBatch ==
    /\ script \in BatchScripts
    /\ IF script = "seal_calip"
       THEN /\ fs = [p \in Paths |-> NoFile]
            /\ clock = 0
            /\ last = NoCall
            /\ origin = [p \in Paths |-> [kind |-> "none", rec |-> <<>>]]
       ELSE InitCodec
    /\ calib = Unset
    /\ pc \in {"find_images"} \cup (IF script = "seal_calip" THEN {"capture"} ELSE {})
    /\ camera_left = Unset
    /\ camera_right = Unset
    /\ stereo_params = Unset
    /\ engine_call = Unset
    /\ template_calib = Unset
    /\ left_images = 0 /\ right_images = 0 /\ pair = 0 /\ collected = 0
    /\ detector \in {"chessboard", "circles", "charuco"}
    /\ num_images \in (IF pc = "capture" THEN 1..MaxCaptures ELSE {0})
    /\ captured = 0
    /\ samples = NoSamples
    /\ turn = Unset
    /\ NoRequest

\* the image lists are not checked before the loop
FindImages_Unchecked ==
    /\ pc = "find_images"
    /\ \E l, r \in 0..MaxImages : left_images' = l /\ right_images' = r
    /\ pc' = "detect"
    /\ UNCHANGED <<pair, collected, detector, num_images, captured, samples, turn>>

\* the two glob searches and the checks on their results: the directory
\* holds any number of left and of right images
FindImages ==
    /\ pc = "find_images"
    /\ \E l, r \in 0..MaxImages :
          /\ left_images' = l
          /\ right_images' = r
          /\ pc' = IF l = 0 \/ r = 0 THEN "no_pairs"
                   ELSE IF l # r THEN "mismatched"
                   ELSE "detect"
    /\ UNCHANGED <<pair, collected, detector, num_images, captured, samples, turn>>

\* one turn of "for ... in enumerate(zip(left_images, right_images))": the
\* detector runs on both images, its answer is unpacked into two names, and
\* the pair is kept when both are found
DetectPair ==
    /\ pc = "detect"
    /\ pair < left_images /\ pair < right_images
    /\ pair' = pair + 1
    /\ \E engine_l, engine_r \in {"found", "not_found", "raises"} :
          /\ turn' = [no |-> pair + 1, read |-> TRUE, engine_l |-> engine_l,
                      engine_r |-> engine_r, pressed |-> "none"]
          /\ IF Len(Detect(detector, <<"left", pair + 1>>, engine_l)) # 2
             THEN pc' = "ValueError" /\ UNCHANGED <<collected, samples>>
             ELSE /\ pc' = pc
                  /\ samples' =
                        IF /\ Detect(detector, <<"left", pair + 1>>, engine_l)[1]
                           /\ Detect(detector, <<"right", pair + 1>>, engine_r)[1]
                        THEN AppendSample(samples,
                                 Detect(detector, <<"left", pair + 1>>, engine_l)[2].v,
                                 Detect(detector, <<"right", pair + 1>>, engine_r)[2].v)
                        ELSE samples
                  /\ collected' = Len(samples'.objpoints)
    /\ UNCHANGED <<left_images, right_images, detector, num_images, captured>>

\* after the loop: "if len(objpoints) < 4", raised by process_from_images
\* or answered with "return 1" by main of stereo_calibration_complete.py;
\* main() goes on to the calibrations, a caller that passed a detector
\* main() does not construct has the lists returned
FinishProcessing ==
    /\ pc = "detect"
    /\ pair = left_images \/ pair = right_images
    /\ pc' = IF collected < MinPairs THEN "not_enough"
             ELSE IF detector \in MainDetectors(script) THEN "calibrate_left"
             ELSE "returned"
    /\ turn' = Unset
    /\ UNCHANGED <<left_images, right_images, pair, collected, detector, num_images,
                   captured, samples>>


\* one turn of "while captured < num_images" of capture_from_cameras: both
\* cameras are read (a failed read starts the next turn), the detector runs
\* on both frames, its answer is
\* unpacked into two names, the frames are shown (draw_corners returns the
\* image untouched when nothing was found) and the key pressed, if any, is
\* handled: SPACE keeps the pair when both are found, Q leaves the loop
CaptureFrame ==
    /\ pc = "capture"
    /\ captured < num_images
    /\ pair < MaxFrames
    /\ pair' = pair + 1
    /\ \/ /\ turn' = [no |-> pair + 1, read |-> FALSE, engine_l |-> "none",
                        engine_r |-> "none", pressed |-> "none"]
          /\ UNCHANGED <<pc, captured, samples>>
       \/ \E engine_l, engine_r \in {"found", "not_found", "raises"},
             pressed \in {"space", "q", "none"} :
             /\ turn' = [no |-> pair + 1, read |-> TRUE, engine_l |-> engine_l,
                         engine_r |-> engine_r, pressed |-> pressed]
             /\ IF Len(Detect(detector, <<"left", pair + 1>>, engine_l)) # 2
                THEN pc' = "ValueError" /\ UNCHANGED <<captured, samples>>
                ELSE IF /\ pressed = "space"
                        /\ Detect(detector, <<"left", pair + 1>>, engine_l)[1]
                        /\ Detect(detector, <<"right", pair + 1>>, engine_r)[1]
                THEN /\ samples' = AppendSample(samples,
                                       Detect(detector, <<"left", pair + 1>>, engine_l)[2].v,
                                       Detect(detector, <<"right", pair + 1>>, engine_r)[2].v)
                     /\ captured' = captured + 1
                     /\ pc' = pc
                ELSE /\ pc' = IF pressed = "q" THEN "released" ELSE pc
                     /\ UNCHANGED <<captured, samples>>
    /\ UNCHANGED <<left_images, right_images, collected, detector, num_images>>

\* after the loop of capture_from_cameras, left because enough pairs were
\* captured or because Q was pressed: "if captured < 4"
FinishCapture ==
    /\ \/ pc = "capture" /\ captured >= num_images
       \/ pc = "released"
    /\ pc' = IF captured < MinPairs THEN "not_enough"
             ELSE IF detector \in MainDetectors(script) THEN "calibrate_left"
             ELSE "returned"
    /\ turn' = Unset
    /\ UNCHANGED <<left_images, right_images, pair, collected, detector, num_images,
                   captured, samples>>
Next ==
    \/ WriteDirect("out.txt") /\ UNCHANGED <<scriptVars, batchVars, unitVars>>
    \/ \E p, t \in Paths :
          WriteWithTemplate(p, t) /\ UNCHANGED <<scriptVars, batchVars, unitVars>>
    \/ \E p \in Paths : Load(p) /\ UNCHANGED <<scriptVars, batchVars, unitVars>>

Spec == Init /\ [][Next]_vars

NextScript ==
    \/ CalibrateLeft /\ UNCHANGED <<batchVars, unitVars>>
    \/ CalibrateRight /\ UNCHANGED <<batchVars, unitVars>>
    \/ CalibrateStereo /\ UNCHANGED <<batchVars, unitVars>>
    \/ Reconcile /\ UNCHANGED <<batchVars, unitVars>>
    \/ LoadTemplate /\ UNCHANGED <<batchVars, unitVars>>
    \/ BuildRecord /\ UNCHANGED <<batchVars, unitVars>>
    \/ ExportRecord /\ UNCHANGED <<batchVars, unitVars>>

SpecScript == InitScript /\ [][NextScript]_vars

NextUnit ==
    \/ UnitLoad /\ UNCHANGED <<codecVars, scriptVars, batchVars>>
    \/ UnitMerge /\ UNCHANGED <<codecVars, scriptVars, batchVars>>
    \/ UnitAccessors /\ UNCHANGED <<codecVars, scriptVars, batchVars>>
    \/ UnitCalibrate /\ UNCHANGED <<codecVars, scriptVars, batchVars>>
    \/ UnitCoverage /\ UNCHANGED <<codecVars, scriptVars, batchVars>>
    \/ UnitRectify /\ UNCHANGED <<codecVars, scriptVars, batchVars>>

SpecUnit == InitUnit /\ [][NextUnit]_vars

NextBatch ==
    \/ FindImages /\ UNCHANGED <<codecVars, unitVars>>
                  /\ UNCHANGED <<script, camera_left, camera_right, stereo_params,
                                 engine_call, template_calib>>
    \/ DetectPair /\ UNCHANGED <<codecVars, unitVars>>
                  /\ UNCHANGED <<script, camera_left, camera_right, stereo_params,
                                 engine_call, template_calib>>
    \/ FinishProcessing /\ UNCHANGED <<codecVars, unitVars>>
                        /\ UNCHANGED <<script, camera_left, camera_right, stereo_params,
                                       engine_call, template_calib>>
    \/ CaptureFrame /\ UNCHANGED <<codecVars, unitVars>>
                    /\ UNCHANGED <<script, camera_left, camera_right, stereo_params,
                                   engine_call, template_calib>>
    \/ FinishCapture /\ UNCHANGED <<codecVars, unitVars>>
                     /\ UNCHANGED <<script, camera_left, camera_right, stereo_params,
                                    engine_call, template_calib>>
    \/ NextScript

SpecBatch == InitBatch /\ [][NextBatch]_vars
(***************************************************************************)
(* Properties                                                              *)
(***************************************************************************)
\* the last call was a write with template that succeeded
Merged == last.op = "write_template" /\ last.ok

\* the lines of the template as the last write with template read them
TemplateLines == last.before[last.template].lines

\* the lines of the file the last write produced
OutputLines == fs[last.path].lines

\* |a - b| <= 0.5 * 10^-6: a and b agree to 6-decimal precision
Near6(a, b) ==
    IF a.neg = b.neg
    THEN /\ a.ip - b.ip \in {-1, 0, 1}
         /\ (a.ip - b.ip) * FpUnit + (a.fp - b.fp) \in -5..5
    ELSE a.ip = 0 /\ b.ip = 0 /\ a.fp + b.fp <= 5

\* line i is the metadata footer of lines: the last line from line 7 on that
\* begins with the DevID marker, or the last line when there is none
IsFooter(lines, i) ==
    LET marked == {j \in 7..Len(lines) : StartsWith(lines[j], DevIDMarker)}
    IN IF marked = {} THEN i = Len(lines)
       ELSE i \in marked /\ \A j \in marked : j <= i

EndsWith(s, p) == Len(s) >= Len(p) /\ SubSeq(s, Len(s) - Len(p) + 1, Len(s)) = p

\* C1: a write with template leaves lines 2, 3, 4 and 6 of the output
\* byte-identical to those of the template, whatever the record carries and
\* wherever the footer is found.
C1_FactoryLinesKept ==
    Merged => \A i \in {2, 3, 4, 6} : OutputLines[i] = TemplateLines[i]

\* C1 witness: a merge of a record whose own scale factors and right camera
\* would format differently from the template's lines 2 and 6, into a
\* template whose footer is found at its last line for want of a marker.
C1_Witness ==
    /\ Merged
    /\ CanFormat(last.calib)
    /\ ToSealFormat(last.calib)[2] # TemplateLines[2]
    /\ FormatCameraLine(last.calib.camera_right, TemplateLines[6]) # TemplateLines[6]
    /\ ~StartsWith(TemplateLines[Len(TemplateLines)], DevIDMarker)
    /\ OutputLines[6] = TemplateLines[6]

\* C2 (as claimed): line 1 of every file write produces, with or without a
\* template, is "1280 720" whatever resolution the record stores.
C2_Line1IsDeviceResolution ==
    (last.op \in {"write_direct", "write_template"} /\ last.ok)
        => OutputLines[1] = <<"1","2","8","0"," ","7","2","0">>

\* the record fields the round-trip law is about agree to 6 decimals
SameCalibration(r, q) ==
    /\ q.resolution = r.resolution
    /\ Len(q.scale_factors) = Len(r.scale_factors)
    /\ \A i \in 1..Len(r.scale_factors) : Near6(q.scale_factors[i], r.scale_factors[i])
    /\ q.offset_center = r.offset_center
    /\ q.offset_tilt = r.offset_tilt
    /\ \A i \in 1..12 :
          /\ Near6(CalibFields(q.camera_left)[i], CalibFields(r.camera_left)[i])
          /\ Near6(CalibFields(q.camera_right)[i], CalibFields(r.camera_right)[i])

\* C3 (as claimed): loading a file that a write without template produced
\* from a record R succeeds and returns R's resolution, factory groups and
\* 12 calibration fields per camera to 6 decimals, with or without a lookup
\* table and with or without metadata.
C3_RoundTrip ==
    (last.op = "load" /\ origin[last.path].kind = "direct")
        => /\ last.ok
           /\ SameCalibration(origin[last.path].rec, calib)

\* C4: when line 5 of the template has at least 15 fields, line 5 of the
\* output has exactly 15: the record's 12 left-camera fields, then the
\* template's fields 13, 14 and 15 as the template spells them.
C4_ExtraFieldsVerbatim ==
    (Merged /\ Len(Split(TemplateLines[5])) >= 15)
        => LET o == Split(OutputLines[5])
               t == Split(TemplateLines[5])
           IN /\ Len(o) = 15
              /\ \A i \in 1..12 :
                    /\ ParseFloat(o[i]).ok
                    /\ Near6(ParseFloat(o[i]).v, CalibFields(last.calib.camera_left)[i])
              /\ \A i \in 13..15 : o[i] = t[i]

\* C4 witness: a merge into a 15-field template whose fields 13-15 are
\* neither zero nor spelt with six decimals.
C4_Witness ==
    /\ Merged
    /\ Len(Split(TemplateLines[5])) >= 15
    /\ \A i \in 13..15 :
          /\ Split(TemplateLines[5])[i] # FormatFloat6(Zero)
          /\ FormatFloat6(ParseFloat(Split(TemplateLines[5])[i]).v)
                # Split(TemplateLines[5])[i]
    /\ Len(Split(OutputLines[5])) = 15

\* the device ids and software versions that occur in footers
KnownDevIDs == {FactoryDevID, FullMetadata.dev_id, DefaultDevID}

KnownVersions == {FactoryVersion, FullMetadata.version, DefaultSoftVersion}

\* the footer line the template had, and its place, when a marker line exists
TemplateHasFooter == \E i \in 7..Len(TemplateLines) : StartsWith(TemplateLines[i], DevIDMarker)

TemplateFooterIdx == CHOOSE i \in 1..Len(TemplateLines) : IsFooter(TemplateLines, i)

\* C5: the rewritten footer keeps the template's DevID and SoftVersion
\* unless the record's metadata supplies dev_id / version, always carries the
\* Type "Sychev-calibration", and carries the time of the write as
\* CalibrateDate.
C5_FooterRewritten ==
    (Merged /\ TemplateHasFooter)
        => \A d \in KnownDevIDs, v \in KnownVersions :
              ( /\ StartsWith(TemplateLines[TemplateFooterIdx], DevIDMarker \o d \o <<"*","*","*">>)
                /\ EndsWith(TemplateLines[TemplateFooterIdx], <<"*","*","*","S","o","f","t","V","e","r","s","i","o","n",":">> \o v) )
              => OutputLines[TemplateFooterIdx] =
                    FooterLine(
                        IF "dev_id" \in DOMAIN last.calib.metadata
                        THEN last.calib.metadata.dev_id ELSE d,
                        StrfTime(last.now),
                        <<"S","y","c","h","e","v","-","c","a","l","i","b","r","a","t","i","o","n">>,
                        IF "version" \in DOMAIN last.calib.metadata
                        THEN last.calib.metadata.version ELSE v)

\* C5 witness: a merge of a record that supplies a type and a version but no
\* dev_id into a factory template of another type: the output footer has
\* the factory DevID, the record's version and the recalibration type.
C5_Witness ==
    /\ Merged
    /\ TemplateHasFooter
    /\ TemplateLines[TemplateFooterIdx] = FactoryFooter
    /\ DOMAIN last.calib.metadata = {"date", "type", "version"}
    /\ last.calib.metadata.type # RecalibrationLabel
    /\ StartsWith(OutputLines[TemplateFooterIdx], DevIDMarker \o FactoryDevID \o <<"*","*","*">>)
    /\ EndsWith(OutputLines[TemplateFooterIdx],
                <<"*","*","*","T","y","p","e",":","S","y","c","h","e","v","-","c","a","l","i","b","r","a","t","i","o","n","*","*","*","S","o","f","t","V","e","r","s","i","o","n",":">> \o FullMetadata.version)

\* C6 (as claimed): a write with template, successful or not, leaves the
\* template file as it was, for every output path.
C6_TemplateNeverMutated ==
    last.op = "write_template" => fs[last.template] = last.before[last.template]

\* C6 (amended): a write with template, successful or not, leaves the
\* template file as it was whenever the output path is not the template path.
C6_TemplateKeptWhenPathsDiffer ==
    (last.op = "write_template" /\ last.path # last.template)
        => fs[last.template] = last.before[last.template]

\* C6 witness: a successful merge into an output path other than the
\* template's, the output differing from the template.
C6_Witness ==
    /\ Merged
    /\ last.path # last.template
    /\ fs[last.path] # fs[last.template]
    /\ fs[last.template].exists

\* C7: load rejects a file of fewer than 10 lines and accepts a factory
\* file of 10; write with template rejects a template of fewer than 10
\* lines and then leaves the output path as it was (absent if it was
\* absent); a template of 10 lines passes.
C7_ShortFilesRejected ==
    /\ (last.op = "load" /\ last.before[last.path].exists
            /\ Len(last.before[last.path].lines) < 10)
          => ~last.ok /\ calib = last.calib
    /\ (last.op = "load" /\ origin[last.path].kind = "factory"
            /\ Len(last.before[last.path].lines) = 10)
          => last.ok
    /\ (last.op = "write_template" /\ last.before[last.template].exists
            /\ Len(TemplateLines) < 10)
          => ~last.ok /\ fs[last.path] = last.before[last.path]
    /\ (last.op = "write_template" /\ last.before[last.template].exists
            /\ Len(TemplateLines) = 10 /\ Len(last.calib.resolution) >= 2)
          => last.ok

\* C7 witness: a template of 9 lines was rejected and the output path, which
\* did not exist, still does not.
C7_Witness ==
    /\ last.op = "write_template"
    /\ ~last.ok
    /\ last.before[last.template].exists
    /\ Len(TemplateLines) = 9
    /\ last.path # last.template
    /\ ~fs[last.path].exists

\* C8: a write with template yields as many lines as the template has;
\* line 7 and every lookup-table row are unchanged and in place; only
\* line 1, line 5 and the footer may differ.
C8_OnlyThreeLinesChange ==
    Merged
        => /\ Len(OutputLines) = Len(TemplateLines)
           /\ OutputLines[7] = TemplateLines[7]
           /\ \A i \in 1..Len(TemplateLines) :
                 (i \notin {1, 5} /\ ~IsFooter(TemplateLines, i))
                    => OutputLines[i] = TemplateLines[i]
           /\ \A i \in 8..(TemplateFooterIdx - 1) : OutputLines[i] = TemplateLines[i]

\* C8 witness: a merge into a template with lookup-table rows before its
\* footer, in which lines 1, 5 and the footer all changed.
C8_Witness ==
    /\ Merged
    /\ TemplateHasFooter
    /\ TemplateFooterIdx >= 10
    /\ OutputLines[1] # TemplateLines[1]
    /\ OutputLines[5] # TemplateLines[5]
    /\ OutputLines[TemplateFooterIdx] # TemplateLines[TemplateFooterIdx]
    /\ OutputLines[9] = TemplateLines[9]

\* C9: StereoCalibrator.calibrate passes the right camera's image points, K
\* and distortion first and the left camera's second, and assigns the first
\* returned pair to the right camera; so K_left of the result is
\* camera_left.K and K_right is camera_right.K.
C9_RightCameraFirst ==
    stereo_params # Unset
        => /\ engine_call.imgpoints1 = ImgPointsRight
           /\ engine_call.K1 = camera_right.K
           /\ engine_call.imgpoints2 = ImgPointsLeft
           /\ engine_call.K2 = camera_left.K
           /\ pc \in {"reconcile"} \cup (IF script = "stereo_to_seal"
                                         THEN {"load_template", "build", "write"} ELSE {})
                 => /\ engine_call.dist1 = camera_right.dist
                    /\ engine_call.dist2 = camera_left.dist
           /\ stereo_params.K_left = camera_left.K
           /\ stereo_params.K_right = camera_right.K

\* C9 witness: calibrate has returned for two cameras whose intrinsic
\* matrices differ and whose refined distortions differ.
C9_Witness ==
    /\ stereo_params # Unset
    /\ camera_left.K # camera_right.K
    /\ stereo_params.K_left = camera_left.K
    /\ stereo_params.K_left # stereo_params.K_right
    /\ stereo_params.dist_left # stereo_params.dist_right

\* C10 (as claimed): in every script that exports after a stereo
\* calibration, the cameras of the record written keep the K of the
\* single-camera step and carry the stereo step's 8-coefficient distortion.
C10_ReconciledRecordWritten ==
    (pc = "done" /\ Merged)
        => /\ last.calib.camera_left.K = engine_call.K2
           /\ last.calib.camera_right.K = engine_call.K1
           /\ Len(last.calib.camera_left.dist) = 8
           /\ Len(last.calib.camera_right.dist) = 8
           /\ last.calib.camera_left.dist = stereo_params.dist_left
           /\ last.calib.camera_right.dist = stereo_params.dist_right


\* the last call was a write without template that succeeded
WroteDirect == last.op = "write_direct" /\ last.ok

\* tok is a number in fixed notation with exactly six decimals
IsFixed6(tok) ==
    LET body == IF tok # <<>> /\ tok[1] = "-" THEN Tail(tok) ELSE tok
        n == Len(body)
    IN /\ n >= 8
       /\ body[n - 6] = "."
       /\ AllDigits(SubSeq(body, 1, n - 7))
       /\ AllDigits(SubSeq(body, n - 5, n))

\* tok is an integer literal: no decimal point
IsIntLiteral(tok) ==
    LET body == IF tok # <<>> /\ tok[1] = "-" THEN Tail(tok) ELSE tok
    IN body # <<>> /\ AllDigits(body)

\* line is a camera line of a write without template: 15 fields in fixed
\* notation, the first 12 those of camera c, the last three zero
IsPaddedCameraLine(line, c) ==
    LET f == Split(line)
    IN /\ Len(f) = 15
       /\ \A i \in 1..15 : IsFixed6(f[i])
       /\ \A i \in 1..12 : Near6(ParseFloat(f[i]).v, CalibFields(c)[i])
       /\ \A i \in 13..15 : f[i] = FormatFloat6(Zero)

\* C12 (as claimed): a file written without a template has 15 numeric
\* fields on lines 5 and 6 (12 calibration fields and three zeros) and
\* ends with a footer whose Type is the recalibration label and whose
\* CalibrateDate is the time of the write, for every record.
C12_DirectWritePaddedAndStamped ==
    WroteDirect
        => /\ IsPaddedCameraLine(OutputLines[5], last.calib.camera_left)
           /\ IsPaddedCameraLine(OutputLines[6], last.calib.camera_right)
           /\ LET foot == ParseMetadata(OutputLines[Len(OutputLines)])
              IN /\ StartsWith(OutputLines[Len(OutputLines)], DevIDMarker)
                 /\ "type" \in DOMAIN foot /\ foot.type = RecalibrationLabel
                 /\ "date" \in DOMAIN foot /\ foot.date = StrfTime(last.now)

\* C13 (as claimed): every float a write emits on a line it generates is
\* in fixed 6-decimal notation, and every integer field is written without
\* a decimal point. A write without template generates every line but the
\* footer; a write with template generates line 1 and the first 12 fields
\* of line 5.
C13_FixedSixDecimals ==
    /\ WroteDirect
         => \A i \in 1..Len(OutputLines) :
               \/ StartsWith(OutputLines[i], DevIDMarker)
               \/ \A j \in 1..Len(Split(OutputLines[i])) :
                     IF i \in {1, 3, 4} THEN IsIntLiteral(Split(OutputLines[i])[j])
                     ELSE IsFixed6(Split(OutputLines[i])[j])
    /\ Merged
         => /\ \A j \in 1..Len(Split(OutputLines[1])) :
                  IsIntLiteral(Split(OutputLines[1])[j])
            /\ \A j \in 1..12 : IsFixed6(Split(OutputLines[5])[j])

\* C14: the record load returns has a placeholder stereo block: identity R,
\* zero T, zero E and F, RMS 0, and the K and distortion of the loaded left
\* and right cameras.
C14_PlaceholderStereo ==
    (last.op = "load" /\ last.ok)
        => /\ calib.stereo.R = Eye3
           /\ calib.stereo.T = Zeros31
           /\ calib.stereo.E = Zeros33
           /\ calib.stereo.F = Zeros33
           /\ calib.stereo.rms_error = Zero
           /\ calib.stereo.K_left = calib.camera_left.K
           /\ calib.stereo.dist_left = calib.camera_left.dist
           /\ calib.stereo.K_right = calib.camera_right.K
           /\ calib.stereo.dist_right = calib.camera_right.dist

\* C14 witness: a load has returned a record whose cameras differ in K and
\* in distortion, replacing a record whose stereo block was another.
C14_Witness ==
    /\ last.op = "load" /\ last.ok
    /\ calib.camera_left.K # calib.camera_right.K
    /\ calib.camera_left.dist # calib.camera_right.dist
    /\ calib.stereo.K_left = calib.camera_left.K
    /\ last.calib.stereo.K_left # calib.stereo.K_left
(***************************************************************************)
(* Claims about library functions called on their own                      *)
(***************************************************************************)
\* the value of the i-th field of a camera line under test
TestValue(i) == Flt(FALSE, i, 5000000)

\* the camera a line of n >= 9 fields under test stands for
TestCamera(n) ==
    CameraParams(
        KMatrix(TestValue(1), TestValue(2), TestValue(3), TestValue(4)),
        [i \in 1..8 |-> IF i + 4 <= n THEN TestValue(i + 4) ELSE Zero],
        <<640, 480>>, Zero)

Loaded == request.fn = "load" /\ response # Unset

\* C15: a camera line 5 or 6 with fewer than 9 fields makes load fail; with 9,
\* 10 or 11 fields each absent k4, k5, k6 is 0.0; fields beyond the 12th do
\* not change the record; the distortion vector always has 8 entries
C15_CameraLineFields ==
    Loaded =>
       \A n \in 0..MaxFields :
          /\ request.lines = FileWithCameras(TestCameraLine(n), FactoryLine6) =>
                IF n < 9 THEN ~response.ok
                ELSE /\ response.ok
                     /\ response.v.camera_left = TestCamera(n)
                     /\ Len(response.v.camera_left.dist) = 8
                     /\ n > 12 =>
                          response.v = LoadLines(FileWithCameras(TestCameraLine(12), FactoryLine6)).v
          /\ request.lines = FileWithCameras(FactoryLine5Full, TestCameraLine(n)) =>
                IF n < 9 THEN ~response.ok
                ELSE /\ response.ok
                     /\ response.v.camera_right = TestCamera(n)
                     /\ Len(response.v.camera_right.dist) = 8
                     /\ n > 12 =>
                          response.v = LoadLines(FileWithCameras(FactoryLine5Full, TestCameraLine(12))).v

\* a line 5 of ten fields has been loaded: k4 is read, k5 and k6 are absent
C15_Witness ==
    /\ Loaded
    /\ request.lines = FileWithCameras(TestCameraLine(10), FactoryLine6)
    /\ response.ok
    /\ k4(response.v.camera_left) = TestValue(10)
    /\ k5(response.v.camera_left) = Zero

\* the float rows of the two kinds of good body line
BodyValues ==
    << <<Flt(FALSE, 1, 5000000), Flt(FALSE, 2, 2500000)>>,
       <<Flt(FALSE, 3, 0), Flt(FALSE, 4, 1250000)>> >>

\* the lines of a body that load reads as rows: blank lines and "***"
\* comments are passed over
BodyRead(body) == SelectSeq(body, LAMBDA kind : kind \in {1, 2, 4})

KnownMetadata(chosen) ==
    [k \in (IF 1 \in chosen THEN {"dev_id"} ELSE {})
           \cup (IF 2 \in chosen THEN {"date"} ELSE {})
           \cup (IF 4 \in chosen THEN {"type"} ELSE {})
           \cup (IF 6 \in chosen THEN {"version"} ELSE {}) |->
        CASE k = "dev_id" -> <<"J","1">>
          [] k = "date" -> <<"D","7">>
          [] k = "type" -> <<"F","a","c","t","o","r","y","-","1","2">>
          [] k = "version" -> <<"3",".","0">>]

\* C17: only the DevID, CalibrateDate, Type and SoftVersion segments of the
\* footer populate metadata; a segment with another key, also one whose key
\* ends with one of those names, adds nothing, and a missing key leaves its
\* entry absent
C17_OnlyKnownKeys ==
    Loaded =>
       \A chosen \in SUBSET (1..Len(FooterSegments)) :
          request.lines = FooterFile(chosen) =>
             response.ok /\ response.v.metadata = KnownMetadata(chosen)

MergedAlone == request.fn = "merge" /\ response # Unset /\ response.ok

\* the footer the merge writes in place of old_line
NewFooter(old_line) ==
    UpdateMetadataLine(old_line, MetaGet(request.calib.metadata, "dev_id"),
                       MetaGet(request.calib.metadata, "version"), request.now)

\* C18: the line a write with template rewrites as the footer is the last
\* line that begins with "***DevID:", looked for from the last line back to
\* line 7 and no further; lines 1 to 6 are never taken for the footer, and
\* every line but line 1, line 5 and the footer is left as it was
C18_FooterFoundFromEnd ==
    MergedAlone =>
       \A marks \in SUBSET MarkPositions :
          request.lines = MarkedFile(marks) =>
             \E idx \in 7..Len(request.lines) :
                /\ \A j \in marks : j >= 7 => j <= idx
                /\ idx \in marks \/ (idx = Len(request.lines) /\ \A j \in marks : j < 7)
                /\ response.v[idx] = NewFooter(request.lines[idx])
                /\ \A i \in 1..Len(request.lines) :
                      i \notin {1, 5, idx} => response.v[i] = request.lines[i]
                /\ \A i \in 1..6 : response.v[i] # NewFooter(request.lines[i])

\* a template with markers on lines 2, 5, 6, 7 and 9 has been merged: line 9
\* carries the new footer, the marker lines 2, 6 and 7 are as they were
C18_Witness ==
    /\ MergedAlone
    /\ request.lines = MarkedFile({2, 5, 6, 7, 9})
    /\ response.v[9] = NewFooter(MarkerLine(9))
    /\ response.v[9] # MarkerLine(9)
    /\ response.v[2] = MarkerLine(2)
    /\ response.v[6] = MarkerLine(6)
    /\ response.v[7] = MarkerLine(7)

\* C19: the distortion accessors never raise: for a vector of any length and
\* shape k1, k2, p1, p2, k3 are the coefficients at positions 0..4 and k4,
\* k5, k6 those at positions 5..7 when the vector carries them, 0.0 otherwise
C19_AccessorsTotal ==
    request.fn = "accessors" /\ response # Unset =>
       /\ response.ok
       /\ \A n \in 0..MaxDist, shape \in {"flat", "row", "column"} :
             request.shape = shape /\ request.dist = Shaped(shape, n) =>
                \A i \in 0..7 :
                   response.v[5 + i] = IF i < n THEN Coefficient(i + 1) ELSE Zero

\* the accessors of a five-coefficient column vector have been read: k3 is
\* the fifth coefficient and k4 is 0.0
C19_Witness ==
    /\ request.fn = "accessors"
    /\ response # Unset
    /\ request.shape = "column"
    /\ Len(request.dist) = 5
    /\ response.v[9] = Coefficient(5)
    /\ response.v[10] = Zero

\* C11: a single-camera calibration called with fewer than 4 correspondence
\* sets fails without producing CameraParams, and called with 4 sets it
\* reaches the engine and returns CameraParams
C11_FourSetsNeeded ==
    request.fn = "calibrate" /\ response # Unset =>
       response.ok <=> Len(request.objpoints) >= 4

(***************************************************************************)
(* Claims about batch processing                                           *)
(***************************************************************************)
\* C20: when the directory holds different numbers of left and of right
\* images the run fails on the checks of the image lists, before any
\* pattern detection and before any single-camera or stereo calibration
C20_MismatchBeforeDetection ==
    left_images # right_images =>
       /\ pc \in {"no_pairs", "mismatched"}
       /\ left_images > 0 /\ right_images > 0 => pc = "mismatched"
       /\ pair = 0
       /\ collected = 0
       /\ camera_left = Unset
       /\ camera_right = Unset
       /\ stereo_params = Unset
       /\ engine_call = Unset

\* a directory with three left and two right images has been refused
C20_Witness ==
    /\ left_images = 3
    /\ right_images = 2
    /\ pc = "mismatched"
    /\ pair = 0

(***************************************************************************)
(* Claims about what load accepts and what write produces                  *)
(***************************************************************************)
\* some field of the line is no integer literal
BadIntField(line) == \E k \in 1..Len(Split(line)) : ~ParseInt(Split(line)[k]).ok

\* some field of the line is no float literal
BadFloatField(line) == \E k \in 1..Len(Split(line)) : ~ParseFloat(Split(line)[k]).ok

\* the lines load reads as lookup-table rows: from line 8 to the line before
\* the footer, blank lines and lines starting with "***" passed over
RowLines(lines) ==
    {i \in 8..(FindMetadataIdx(lines) - 1) :
        lines[i] # <<>> /\ ~StartsWith(lines[i], <<"*", "*", "*">>)}

\* C22: load raises to its caller whenever a field on lines 1 to 6 or in a
\* lookup-table row is no number: no parse error is swallowed
C22_ParseErrorsRaised ==
    /\ Loaded
    /\ Len(request.lines) >= MinLines
    /\ \/ \E i \in {1, 3, 4} : BadIntField(request.lines[i])
       \/ \E i \in {2, 5, 6} : BadFloatField(request.lines[i])
       \/ \E i \in RowLines(request.lines) : BadFloatField(request.lines[i])
    => ~response.ok

\* C24: a loaded record has a resolution, scale factors, center offset and
\* tilt offset of two components each, and a file whose line 1, 2, 3 or 4
\* has another number of fields is rejected
C24_TwoComponentsEach ==
    Loaded /\ Len(request.lines) >= MinLines =>
       /\ response.ok =>
             /\ Len(response.v.resolution) = 2
             /\ Len(response.v.scale_factors) = 2
             /\ Len(response.v.offset_center) = 2
             /\ Len(response.v.offset_tilt) = 2
       /\ (\E i \in 1..4 : Len(Split(request.lines[i])) # 2) => ~response.ok

\* C25: every file write produces is accepted by load, for a write without
\* template and for a write with a template that load accepts
C25_WrittenFilesLoad ==
    /\ WroteDirect => LoadLines(OutputLines).ok
    /\ Merged /\ LoadLines(TemplateLines).ok => LoadLines(OutputLines).ok

\* the lines as load sees them
Stripped(lines) == List([i \in 1..Len(lines) |-> Strip(lines[i])])

\* C27: write with template rewrites as footer the line that load takes for
\* the footer of the same file, also when a footer line has leading blanks
C27_SameFooterIndex ==
    MergedAlone =>
       /\ response.v[FindMetadataIdx(Stripped(request.lines))]
             # request.lines[FindMetadataIdx(Stripped(request.lines))]
       /\ \A i \in 7..Len(request.lines) :
             i # FindMetadataIdx(Stripped(request.lines)) => response.v[i] = request.lines[i]

\* no line from line 7 on begins with the DevID marker
NoMarker(lines) == \A i \in 7..Len(lines) : ~StartsWith(lines[i], DevIDMarker)

NewFields == List([i \in 1..12 |-> FormatFloat6(CalibFields(request.calib.camera_left)[i])])

\* C28: a write with template whose line 5 has fewer than 15 fields gives an
\* output line 5 of exactly the 12 new calibration fields: nothing is padded
\* and the template's fields 13 and 14 are dropped; from 15 fields on the
\* template's fields 13 to 15 follow the 12 new ones
C28_ShortLineGivesTwelveFields ==
    MergedAlone =>
       \A n \in 0..MaxFields :
          request.lines = FileWithCameras(TestCameraLine(n), FactoryLine6) =>
             Split(response.v[5]) =
                IF n < 15 THEN NewFields
                ELSE NewFields \o <<TestField(13), TestField(14), TestField(15)>>

\* a template whose line 5 has 14 fields has been merged: output line 5 has
\* 12 fields
C28_Witness ==
    /\ MergedAlone
    /\ request.lines = FileWithCameras(TestCameraLine(14), FactoryLine6)
    /\ Len(Split(response.v[5])) = 12
    /\ Len(Split(request.lines[5])) = 14

(***************************************************************************)
(* Claims about the coverage check                                         *)
(***************************************************************************)
Covered == request.fn = "coverage" /\ response # Unset

\* the points of all sets of the request
RequestPoints ==
    UNION { { request.imgpoints[s][k] : k \in 1..Len(request.imgpoints[s]) } :
            s \in 1..Len(request.imgpoints) }

\* the pixel of pt (its coordinates truncated to integers) lies in column
\* col and row row of the grid laid over the image
InCell(pt, col, row) ==
    /\ col * request.img_size[1] <= IntOf(pt[1]) * request.grid_size[1]
    /\ IntOf(pt[1]) * request.grid_size[1] < (col + 1) * request.img_size[1]
    /\ row * request.img_size[2] <= IntOf(pt[2]) * request.grid_size[2]
    /\ IntOf(pt[2]) * request.grid_size[2] < (row + 1) * request.img_size[2]

\* the grid cells that contain the pixel of at least one point of the request
CellsWithPoints ==
    { c \in (0..(request.grid_size[1] - 1)) \X (0..(request.grid_size[2] - 1)) :
        \E pt \in RequestPoints : InCell(pt, c[1], c[2]) }

\* the result of the check on the first k point sets of the request
OnFirst(k) ==
    CheckCalibrationCoverage(SubSeq(request.imgpoints, 1, k), request.img_size,
                             request.grid_size)

C29_RectifyKeepsRoles ==
    (request.fn = "rectify" /\ response # Unset)
        => /\ response.v.K1 = request.calibrated.call.K1
           /\ response.v.K2 = request.calibrated.call.K2
           /\ response.v.dist1 = request.calibrated.params.dist_right
           /\ response.v.dist2 = request.calibrated.params.dist_left
           /\ response.v.R = request.calibrated.params.R
           /\ response.v.T = request.calibrated.params.T

(***************************************************************************)
(* Claims about the detection loops                                        *)
(***************************************************************************)
\* the detection engine raised on the left or on the right frame of the
\* last turn of the loop
EngineRaised ==
    /\ turn # Unset
    /\ turn.read
    /\ turn.engine_l = "raises" \/ turn.engine_r = "raises"

\* the frame numbers the samples were taken from
SampledFrames == { samples.imgpoints_left[i][2] : i \in 1..Len(samples.imgpoints_left) }

\* C21: for every pattern detector (chessboard, circle grid, ChArUco) an
\* exception raised by the detection engine inside detect becomes a "not
\* found" answer for that frame, so the capture or batch loop that called
\* detect does not abort: it takes no sample from the frame and goes on
\* with the next one (or is left with Q by the user).
C21_DetectionErrorsSkipFrame ==
    /\ \A d \in {"chessboard", "circles", "charuco"}, side \in {"left", "right"} :
          Detect(d, <<side, 1>>, "raises")[1] = FALSE
    /\ EngineRaised
          => /\ pc \in {"detect", "capture", "released"}
             /\ turn.no \notin SampledFrames

\* C30: in the live-capture and the batch loop a sample is appended only for
\* a frame pair with the pattern found in both images (in live capture:
\* and SPACE pressed); the three lists always have the same length, which
\* is the captured counter in live capture and the number of pairs kept in
\* batch processing; the i-th left and the i-th right point set come from
\* the same frame pair.
C30_SamplesFromPairsFoundInBoth ==
    /\ Len(samples.objpoints) = Len(samples.imgpoints_left)
    /\ Len(samples.imgpoints_left) = Len(samples.imgpoints_right)
    /\ captured = (IF num_images > 0 THEN Len(samples.objpoints) ELSE 0)
    /\ collected = (IF num_images > 0 THEN 0 ELSE Len(samples.objpoints))
    /\ \A i \in 1..Len(samples.imgpoints_left) :
          /\ samples.imgpoints_left[i][1] = "left"
          /\ samples.imgpoints_right[i][1] = "right"
          /\ samples.imgpoints_left[i][2] = samples.imgpoints_right[i][2]
    /\ (turn # Unset /\ turn.no \in SampledFrames)
          => /\ turn.read
             /\ turn.engine_l = "found"
             /\ turn.engine_r = "found"
             /\ num_images > 0 => turn.pressed = "space"

\* C30 witness: the live capture has kept the frame pairs 1 and 3, and in
\* its fourth turn SPACE was pressed on a pair with the pattern found in the
\* left image only: nothing was appended
C30_Witness ==
    /\ pc = "capture"
    /\ captured = 2
    /\ samples.imgpoints_left = << <<"left", 1>>, <<"left", 3>> >>
    /\ samples.imgpoints_right = << <<"right", 1>>, <<"right", 3>> >>
    /\ turn # Unset
    /\ turn.no = 4
    /\ turn.engine_l = "found"
    /\ turn.engine_r = "not_found"
    /\ turn.pressed = "space"

=============================================================================
